---- MODULE Spec2Model ----
(***************************************************************************)
(* Model of the news summarizer agent: the LangGraph workflow of           *)
(* app/agent.py, the retrieval service of app/tools/fetch_news.py, the     *)
(* relevance filter of app/tools/relevance_filter.py and the summarizer    *)
(* of app/tools/summarize.py.                                              *)
(*                                                                         *)
(* A Python str is a sequence of one-character strings.  A text whose      *)
(* length matters more than its wording (an article body) is a record      *)
(* [txt, pad]: the characters txt followed by pad filler characters "0".   *)
(* The filler is neither a letter nor whitespace and occurs in no topic.   *)
(* Python's None is the record None.  A float is the IEEE 754 double, kept  *)
(* as its sign and its magnitude in units of 2^-90.                         *)
(***************************************************************************)
EXTENDS Integers, Sequences, FiniteSets, TLC

VARIABLES pc, st, cache, obs, call, ret

vars == <<pc, st, cache, obs, call, ret>>

----------------------------------------------------------------------------
(* Python floats: IEEE 754 binary64, round to nearest, ties to even *)

\* A magnitude is a natural number written in limbs of 15 bits, the least
\* significant first and the most significant not 0 (0 is <<>>): the numbers
\* of the evaluator have 32 bits, a float has 53 significant ones.
Base ==
    2^15

\* limbs below the binary point: a float is [neg, mag], worth mag * 2^-90,
\* negated where neg.  Every float from 2^-37 to 2^30 is such a number.
FracLimbs ==
    90 \div 15

\* the 52 bits a float stores and the leading one it implies
SignificantBits ==
    52 + 1

Zeros(n) ==
    [i \in 1..n |-> 0]

RECURSIVE BNorm(_)
BNorm(a) ==
    IF a = <<>> THEN <<>>
    ELSE IF a[Len(a)] = 0 THEN BNorm(SubSeq(a, 1, Len(a) - 1))
    ELSE a

RECURSIVE BAddCarry(_, _, _)
BAddCarry(a, b, carry) ==
    IF a = <<>> /\ b = <<>>
    THEN IF carry = 0 THEN <<>> ELSE <<carry>>
    ELSE LET s == (IF a = <<>> THEN 0 ELSE Head(a))
                  + (IF b = <<>> THEN 0 ELSE Head(b)) + carry
         IN  <<s % Base>> \o BAddCarry(IF a = <<>> THEN <<>> ELSE Tail(a),
                                       IF b = <<>> THEN <<>> ELSE Tail(b),
                                       s \div Base)

BAdd(a, b) ==
    BAddCarry(a, b, 0)

RECURSIVE BSubBorrow(_, _, _)
BSubBorrow(a, b, borrow) ==
    IF a = <<>> THEN <<>>
    ELSE LET d == Head(a) - (IF b = <<>> THEN 0 ELSE Head(b)) - borrow
         IN  <<d % Base>> \o BSubBorrow(Tail(a), IF b = <<>> THEN <<>> ELSE Tail(b),
                                        IF d < 0 THEN 1 ELSE 0)

\* a - b, for a >= b
BSub(a, b) ==
    BNorm(BSubBorrow(a, b, 0))

RECURSIVE BLtFrom(_, _, _)
BLtFrom(a, b, i) ==
    IF i = 0 THEN FALSE
    ELSE IF a[i] # b[i] THEN a[i] < b[i]
    ELSE BLtFrom(a, b, i - 1)

BLt(a, b) ==
    IF Len(a) # Len(b) THEN Len(a) < Len(b) ELSE BLtFrom(a, b, Len(a))

RECURSIVE BMulCarry(_, _, _)
BMulCarry(a, c, carry) ==
    IF a = <<>>
    THEN IF carry = 0 THEN <<>> ELSE <<carry>>
    ELSE <<(Head(a) * c + carry) % Base>>
         \o BMulCarry(Tail(a), c, (Head(a) * c + carry) \div Base)

\* a * c, for a limb c
BMulSmall(a, c) ==
    IF c = 0 THEN <<>> ELSE BMulCarry(a, c, 0)

\* a * Base
BShift(a) ==
    IF a = <<>> THEN <<>> ELSE <<0>> \o a

RECURSIVE BMul(_, _)
BMul(a, b) ==
    IF b = <<>> THEN <<>>
    ELSE BAdd(BMulSmall(a, Head(b)), BShift(BMul(a, Tail(b))))

BitLen(a) ==
    IF a = <<>> THEN 0
    ELSE 15 * (Len(a) - 1) + CHOOSE k \in 1..15 : 2^(k - 1) <= a[Len(a)] /\ a[Len(a)] < 2^k

\* 2^k
BPow2(k) ==
    [i \in 1..(k \div 15 + 1) |-> IF i <= k \div 15 THEN 0 ELSE 2^(k % 15)]

\* a mod 2^k
BLow(a, k) ==
    BNorm([i \in 1..(IF Len(a) < k \div 15 + 1 THEN Len(a) ELSE k \div 15 + 1) |->
               IF i <= k \div 15 THEN a[i] ELSE a[i] % 2^(k % 15)])

\* bit k of a
BBit(a, k) ==
    IF k \div 15 + 1 > Len(a) THEN 0 ELSE (a[k \div 15 + 1] \div 2^(k % 15)) % 2

\* a, of which inexact tells that a nonzero part below its unit was dropped,
\* rounded to 53 significant bits: to the nearest, a tie to the even one
Round(a, inexact) ==
    LET k == BitLen(a) - SignificantBits
        low == BLow(a, k)
        half == BPow2(k - 1)
        up == \/ BLt(half, low)
              \/ low = half /\ (inexact \/ BBit(a, k) = 1)
    IN  IF k <= 0 THEN a
        ELSE IF up THEN BAdd(BSub(a, low), BPow2(k))
        ELSE BSub(a, low)

\* the next digit of a long division (Knuth's algorithm D): the remainder r
\* is less than b * Base and the leading limb of b is at least Base / 2, so
\* the quotient of their leading limbs is the digit or exceeds it by 1 or 2
QuotientDigit(r, b) ==
    LET n == Len(b)
        top == (IF Len(r) > n THEN r[n + 1] * Base ELSE 0)
               + (IF Len(r) >= n THEN r[n] ELSE 0)
        est == IF top \div b[n] > Base - 1 THEN Base - 1 ELSE top \div b[n]
    IN  IF ~BLt(r, BMulSmall(b, est)) THEN est
        ELSE IF ~BLt(r, BMulSmall(b, est - 1)) THEN est - 1
        ELSE est - 2

\* limbs i down to 1 of a divided by b, rem being what the limbs above
\* left: [q, rem], the digits of q from the most significant
RECURSIVE BDivFrom(_, _, _, _)
BDivFrom(a, b, i, rem) ==
    IF i = 0 THEN [q |-> <<>>, rem |-> rem]
    ELSE LET r == BNorm(<<a[i]>> \o rem)
             digit == QuotientDigit(r, b)
             rest == BDivFrom(a, b, i - 1, BSub(r, BMulSmall(b, digit)))
         IN  [q |-> <<digit>> \o rest.q, rem |-> rest.rem]

Reverse(s) ==
    [i \in 1..Len(s) |-> s[Len(s) + 1 - i]]

\* the zero limbs a number ends in
RECURSIVE LowZeros(_)
LowZeros(a) ==
    IF a = <<>> \/ Head(a) # 0 THEN 0 ELSE 1 + LowZeros(Tail(a))

\* floor(a * Base^7 / b) and whether a remainder is left, for b # 0: the
\* zero limbs b ends in are taken off both, and both are doubled until the
\* leading limb of b is at least Base / 2
BDiv(a, b) ==
    LET z == IF LowZeros(b) > FracLimbs + 1 THEN FracLimbs + 1 ELSE LowZeros(b)
        scale == 2^(15 * Len(b) - BitLen(b))
        num == BMulSmall(Zeros(FracLimbs + 1 - z) \o a, scale)
        den == BMulSmall(SubSeq(b, z + 1, Len(b)), scale)
        d == BDivFrom(num, den, Len(num), <<>>)
    IN  [q |-> BNorm(Reverse(d.q)), inexact |-> d.rem # <<>>]

MkFloat(neg, mag) ==
    [neg |-> neg /\ mag # <<>>, mag |-> mag]

\* float(n) of an int
FromInt(n) ==
    LET m == IF n < 0 THEN 0 - n ELSE n
    IN  MkFloat(n < 0, IF m = 0 THEN <<>>
                       ELSE Zeros(FracLimbs)
                            \o BNorm(<<m % Base, (m \div Base) % Base,
                                       m \div (Base * Base)>>))

\* x + y
FAdd(x, y) ==
    IF x.neg = y.neg THEN MkFloat(x.neg, Round(BAdd(x.mag, y.mag), FALSE))
    ELSE IF BLt(x.mag, y.mag) THEN MkFloat(y.neg, Round(BSub(y.mag, x.mag), FALSE))
    ELSE MkFloat(x.neg, Round(BSub(x.mag, y.mag), FALSE))

\* x * y
FMul(x, y) ==
    LET p == Round(BMul(x.mag, y.mag), FALSE)
    IN  MkFloat(x.neg # y.neg, SubSeq(p, FracLimbs + 1, Len(p)))

\* x / y, for y # 0: the quotient is taken one limb finer than a float's
\* unit and rounded there
FDiv(x, y) ==
    LET d == BDiv(x.mag, y.mag)
        q == Round(d.q, d.inexact)
    IN  MkFloat(x.neg # y.neg, IF x.mag = <<>> THEN <<>> ELSE Tail(q))

\* x < y
FLt(x, y) ==
    IF x.neg # y.neg THEN x.neg
    ELSE IF x.neg THEN BLt(y.mag, x.mag)
    ELSE BLt(x.mag, y.mag)

\* x <= y
FLe(x, y) ==
    ~FLt(y, x)

\* min(x, y): the first of the two unless the second is less
FMin(x, y) ==
    IF FLt(y, x) THEN y ELSE x

\* max(x, y): the first of the two unless the second is greater
FMax(x, y) ==
    IF FLt(x, y) THEN y ELSE x

\* the float n / d of two ints, which is also what the literal of the
\* decimal n / d denotes (0.2 is Float(2, 10)), for d # 0
Float(n, d) ==
    FDiv(FromInt(n), FromInt(d))

Zero ==
    FromInt(0)

One ==
    FromInt(1)

\* sum(s): 0 + s[1] + s[2] + ..., added from the left
RECURSIVE FSum(_)
FSum(s) ==
    IF s = <<>> THEN Zero ELSE FAdd(FSum(SubSeq(s, 1, Len(s) - 1)), s[Len(s)])

\* x added k times to 0.0, one += at a time
RECURSIVE Accumulate(_, _)
Accumulate(x, k) ==
    IF k = 0 THEN Zero ELSE FAdd(Accumulate(x, k - 1), x)


----------------------------------------------------------------------------
(* Python str and dict operations *)

None ==
    [none |-> TRUE]

Range(s) ==
    {s[i] : i \in DOMAIN s}

UpperCase ==
    <<"A", "B", "C", "D", "E", "F", "G", "H", "I", "J", "K", "L", "M",
      "N", "O", "P", "Q", "R", "S", "T", "U", "V", "W", "X", "Y", "Z">>

LowerCase ==
    <<"a", "b", "c", "d", "e", "f", "g", "h", "i", "j", "k", "l", "m",
      "n", "o", "p", "q", "r", "s", "t", "u", "v", "w", "x", "y", "z">>

\* str.lower()
lower(s) ==
    [i \in DOMAIN s |->
        IF \E k \in DOMAIN UpperCase : UpperCase[k] = s[i]
        THEN LowerCase[CHOOSE k \in DOMAIN UpperCase : UpperCase[k] = s[i]]
        ELSE s[i]]

RECURSIVE LStrip(_)
LStrip(s) ==
    IF s # <<>> /\ Head(s) = " " THEN LStrip(Tail(s)) ELSE s

RECURSIVE RStrip(_)
RStrip(s) ==
    IF s # <<>> /\ s[Len(s)] = " " THEN RStrip(SubSeq(s, 1, Len(s) - 1)) ELSE s

\* str.strip()
strip(s) ==
    RStrip(LStrip(s))

RECURSIVE SplitAcc(_, _, _)
SplitAcc(s, cur, acc) ==
    IF s = <<>>
    THEN IF cur = <<>> THEN acc ELSE Append(acc, cur)
    ELSE IF Head(s) = " "
         THEN SplitAcc(Tail(s), <<>>, IF cur = <<>> THEN acc ELSE Append(acc, cur))
         ELSE SplitAcc(Tail(s), Append(cur, Head(s)), acc)

\* str.split(): the maximal runs of non-whitespace characters
split(s) ==
    SplitAcc(s, <<>>, <<>>)

\* w in s, for two str
IsSubstr(w, s) ==
    \E i \in 0..(Len(s) - Len(w)) : SubSeq(s, i + 1, i + Len(w)) = w

\* dict.get(key, default)
Get(d, key, default) ==
    IF key \in DOMAIN d THEN d[key] ELSE default

Text(txt, pad) ==
    [txt |-> txt, pad |-> pad]

EmptyText ==
    Text(<<>>, 0)

\* len(t) of a text
TLen(t) ==
    Len(t.txt) + t.pad

\* len(t.strip()) of a text: the filler is not whitespace
TStripLen(t) ==
    IF t.pad > 0 THEN Len(LStrip(t.txt)) + t.pad ELSE Len(strip(t.txt))

\* Python's truth value of a str or None
Truthy(t) ==
    t # None /\ TLen(t) > 0

----------------------------------------------------------------------------
(* app/tools/relevance_filter.py *)

\* stopwords.words('english'): nltk's list of 179 English stop words
StopWords ==
    {<<"i">>, <<"m", "e">>, <<"m", "y">>, <<"m", "y", "s", "e", "l", "f">>, <<"w", "e">>,
     <<"o", "u", "r">>, <<"o", "u", "r", "s">>, <<"o", "u", "r", "s", "e", "l", "v", "e", "s">>,
     <<"y", "o", "u">>, <<"y", "o", "u", "'", "r", "e">>, <<"y", "o", "u", "'", "v", "e">>,
     <<"y", "o", "u", "'", "l", "l">>, <<"y", "o", "u", "'", "d">>, <<"y", "o", "u", "r">>,
     <<"y", "o", "u", "r", "s">>, <<"y", "o", "u", "r", "s", "e", "l", "f">>,
     <<"y", "o", "u", "r", "s", "e", "l", "v", "e", "s">>, <<"h", "e">>, <<"h", "i", "m">>,
     <<"h", "i", "s">>, <<"h", "i", "m", "s", "e", "l", "f">>, <<"s", "h", "e">>,
     <<"s", "h", "e", "'", "s">>, <<"h", "e", "r">>, <<"h", "e", "r", "s">>,
     <<"h", "e", "r", "s", "e", "l", "f">>, <<"i", "t">>, <<"i", "t", "'", "s">>, <<"i", "t", "s">>,
     <<"i", "t", "s", "e", "l", "f">>, <<"t", "h", "e", "y">>, <<"t", "h", "e", "m">>,
     <<"t", "h", "e", "i", "r">>, <<"t", "h", "e", "i", "r", "s">>,
     <<"t", "h", "e", "m", "s", "e", "l", "v", "e", "s">>, <<"w", "h", "a", "t">>,
     <<"w", "h", "i", "c", "h">>, <<"w", "h", "o">>, <<"w", "h", "o", "m">>, <<"t", "h", "i", "s">>,
     <<"t", "h", "a", "t">>, <<"t", "h", "a", "t", "'", "l", "l">>, <<"t", "h", "e", "s", "e">>,
     <<"t", "h", "o", "s", "e">>, <<"a", "m">>, <<"i", "s">>, <<"a", "r", "e">>, <<"w", "a", "s">>,
     <<"w", "e", "r", "e">>, <<"b", "e">>, <<"b", "e", "e", "n">>, <<"b", "e", "i", "n", "g">>,
     <<"h", "a", "v", "e">>, <<"h", "a", "s">>, <<"h", "a", "d">>, <<"h", "a", "v", "i", "n", "g">>,
     <<"d", "o">>, <<"d", "o", "e", "s">>, <<"d", "i", "d">>, <<"d", "o", "i", "n", "g">>, <<"a">>,
     <<"a", "n">>, <<"t", "h", "e">>, <<"a", "n", "d">>, <<"b", "u", "t">>, <<"i", "f">>,
     <<"o", "r">>, <<"b", "e", "c", "a", "u", "s", "e">>, <<"a", "s">>, <<"u", "n", "t", "i", "l">>,
     <<"w", "h", "i", "l", "e">>, <<"o", "f">>, <<"a", "t">>, <<"b", "y">>, <<"f", "o", "r">>,
     <<"w", "i", "t", "h">>, <<"a", "b", "o", "u", "t">>, <<"a", "g", "a", "i", "n", "s", "t">>,
     <<"b", "e", "t", "w", "e", "e", "n">>, <<"i", "n", "t", "o">>,
     <<"t", "h", "r", "o", "u", "g", "h">>, <<"d", "u", "r", "i", "n", "g">>,
     <<"b", "e", "f", "o", "r", "e">>, <<"a", "f", "t", "e", "r">>, <<"a", "b", "o", "v", "e">>,
     <<"b", "e", "l", "o", "w">>, <<"t", "o">>, <<"f", "r", "o", "m">>, <<"u", "p">>,
     <<"d", "o", "w", "n">>, <<"i", "n">>, <<"o", "u", "t">>, <<"o", "n">>, <<"o", "f", "f">>,
     <<"o", "v", "e", "r">>, <<"u", "n", "d", "e", "r">>, <<"a", "g", "a", "i", "n">>,
     <<"f", "u", "r", "t", "h", "e", "r">>, <<"t", "h", "e", "n">>, <<"o", "n", "c", "e">>,
     <<"h", "e", "r", "e">>, <<"t", "h", "e", "r", "e">>, <<"w", "h", "e", "n">>,
     <<"w", "h", "e", "r", "e">>, <<"w", "h", "y">>, <<"h", "o", "w">>, <<"a", "l", "l">>,
     <<"a", "n", "y">>, <<"b", "o", "t", "h">>, <<"e", "a", "c", "h">>, <<"f", "e", "w">>,
     <<"m", "o", "r", "e">>, <<"m", "o", "s", "t">>, <<"o", "t", "h", "e", "r">>,
     <<"s", "o", "m", "e">>, <<"s", "u", "c", "h">>, <<"n", "o">>, <<"n", "o", "r">>,
     <<"n", "o", "t">>, <<"o", "n", "l", "y">>, <<"o", "w", "n">>, <<"s", "a", "m", "e">>,
     <<"s", "o">>, <<"t", "h", "a", "n">>, <<"t", "o", "o">>, <<"v", "e", "r", "y">>, <<"s">>,
     <<"t">>, <<"c", "a", "n">>, <<"w", "i", "l", "l">>, <<"j", "u", "s", "t">>, <<"d", "o", "n">>,
     <<"d", "o", "n", "'", "t">>, <<"s", "h", "o", "u", "l", "d">>,
     <<"s", "h", "o", "u", "l", "d", "'", "v", "e">>, <<"n", "o", "w">>, <<"d">>, <<"l", "l">>,
     <<"m">>, <<"o">>, <<"r", "e">>, <<"v", "e">>, <<"y">>, <<"a", "i", "n">>,
     <<"a", "r", "e", "n">>, <<"a", "r", "e", "n", "'", "t">>, <<"c", "o", "u", "l", "d", "n">>,
     <<"c", "o", "u", "l", "d", "n", "'", "t">>, <<"d", "i", "d", "n">>,
     <<"d", "i", "d", "n", "'", "t">>, <<"d", "o", "e", "s", "n">>,
     <<"d", "o", "e", "s", "n", "'", "t">>, <<"h", "a", "d", "n">>,
     <<"h", "a", "d", "n", "'", "t">>, <<"h", "a", "s", "n">>, <<"h", "a", "s", "n", "'", "t">>,
     <<"h", "a", "v", "e", "n">>, <<"h", "a", "v", "e", "n", "'", "t">>, <<"i", "s", "n">>,
     <<"i", "s", "n", "'", "t">>, <<"m", "a">>, <<"m", "i", "g", "h", "t", "n">>,
     <<"m", "i", "g", "h", "t", "n", "'", "t">>, <<"m", "u", "s", "t", "n">>,
     <<"m", "u", "s", "t", "n", "'", "t">>, <<"n", "e", "e", "d", "n">>,
     <<"n", "e", "e", "d", "n", "'", "t">>, <<"s", "h", "a", "n">>,
     <<"s", "h", "a", "n", "'", "t">>, <<"s", "h", "o", "u", "l", "d", "n">>,
     <<"s", "h", "o", "u", "l", "d", "n", "'", "t">>, <<"w", "a", "s", "n">>,
     <<"w", "a", "s", "n", "'", "t">>, <<"w", "e", "r", "e", "n">>,
     <<"w", "e", "r", "e", "n", "'", "t">>, <<"w", "o", "n">>, <<"w", "o", "n", "'", "t">>,
     <<"w", "o", "u", "l", "d", "n">>, <<"w", "o", "u", "l", "d", "n", "'", "t">>}

\* nltk.stem.porter: a letter is a consonant unless it is one of aeiou, or a y
\* that follows a consonant
_is_consonant(word, i) ==
    LET c[j \in 1..Len(word)] ==
            IF word[j] \in {"a", "e", "i", "o", "u"} THEN FALSE
            ELSE IF word[j] = "y" THEN (IF j = 1 THEN TRUE ELSE ~c[j - 1])
            ELSE TRUE
    IN c[i]

\* the m of [C](VC){m}[V]: how often a consonant follows a vowel
_measure(stem) ==
    Cardinality({i \in 1..(Len(stem) - 1) :
                    ~_is_consonant(stem, i) /\ _is_consonant(stem, i + 1)})

_contains_vowel(stem) ==
    \E i \in 1..Len(stem) : ~_is_consonant(stem, i)

_ends_double_consonant(word) ==
    /\ Len(word) >= 2
    /\ word[Len(word)] = word[Len(word) - 1]
    /\ _is_consonant(word, Len(word))

\* consonant, vowel, consonant other than w, x, y; or a vowel and a consonant
_ends_cvc(word) ==
    \/ /\ Len(word) >= 3
       /\ _is_consonant(word, Len(word) - 2)
       /\ ~_is_consonant(word, Len(word) - 1)
       /\ _is_consonant(word, Len(word))
       /\ word[Len(word)] \notin {"w", "x", "y"}
    \/ /\ Len(word) = 2
       /\ ~_is_consonant(word, 1)
       /\ _is_consonant(word, 2)

\* word.endswith(suffix)
EndsWith(word, suffix) ==
    /\ Len(suffix) <= Len(word)
    /\ SubSeq(word, Len(word) - Len(suffix) + 1, Len(word)) = suffix

\* word[:-n]
DropLast(word, n) ==
    SubSeq(word, 1, Len(word) - n)

\* the conditions of the rules, on the stem left of the suffix
RuleCondition(condition, stem, word) ==
    CASE condition = "always" -> TRUE
      [] condition = "positive" -> _measure(stem) > 0
      [] condition = "gt1" -> _measure(stem) > 1
      [] condition = "ion" -> _measure(stem) > 1 /\ stem[Len(stem)] \in {"s", "t"}
      [] OTHER -> _measure(DropLast(word, 3)) > 0

\* the first rule whose suffix ends the word decides: its replacement when its
\* condition holds, the word unchanged otherwise
RECURSIVE _apply_rule_list(_, _)
_apply_rule_list(word, rules) ==
    IF rules = <<>> THEN word
    ELSE IF EndsWith(word, Head(rules).suffix)
    THEN IF RuleCondition(Head(rules).condition,
                          DropLast(word, Len(Head(rules).suffix)), word)
         THEN DropLast(word, Len(Head(rules).suffix)) \o Head(rules).replacement
         ELSE word
    ELSE _apply_rule_list(word, Tail(rules))

\* plurals
Step1aRules ==
    <<[suffix |-> <<"s", "s", "e", "s">>, replacement |-> <<"s", "s">>, condition |-> "always"],
      [suffix |-> <<"i", "e", "s">>, replacement |-> <<"i">>, condition |-> "always"],
      [suffix |-> <<"s", "s">>, replacement |-> <<"s", "s">>, condition |-> "always"],
      [suffix |-> <<"s">>, replacement |-> <<>>, condition |-> "always"]>>

_step1a(word) ==
    IF EndsWith(word, <<"i", "e", "s">>) /\ Len(word) = 4
    THEN DropLast(word, 3) \o <<"i", "e">>
    ELSE _apply_rule_list(word, Step1aRules)

\* after -ed or -ing is removed: -at, -bl, -iz gain an e, a double consonant
\* other than l, s, z loses a letter, a short stem gains an e
Step1bTail(stem) ==
    IF EndsWith(stem, <<"a", "t">>) \/ EndsWith(stem, <<"b", "l">>) \/ EndsWith(stem, <<"i", "z">>)
    THEN stem \o <<"e">>
    ELSE IF _ends_double_consonant(stem)
    THEN (IF stem[Len(stem)] \notin {"l", "s", "z"} THEN DropLast(stem, 1) ELSE stem)
    ELSE IF _measure(stem) = 1 /\ _ends_cvc(stem)
    THEN stem \o <<"e">>
    ELSE stem

_step1b(word) ==
    IF EndsWith(word, <<"i", "e", "d">>)
    THEN (IF Len(word) = 4 THEN DropLast(word, 3) \o <<"i", "e">> ELSE DropLast(word, 3) \o <<"i">>)
    ELSE IF EndsWith(word, <<"e", "e", "d">>)
    THEN (IF _measure(DropLast(word, 3)) > 0 THEN DropLast(word, 1) ELSE word)
    ELSE IF EndsWith(word, <<"e", "d">>) /\ _contains_vowel(DropLast(word, 2))
    THEN Step1bTail(DropLast(word, 2))
    ELSE IF ~EndsWith(word, <<"e", "d">>) /\ EndsWith(word, <<"i", "n", "g">>) /\ _contains_vowel(DropLast(word, 3))
    THEN Step1bTail(DropLast(word, 3))
    ELSE word

\* a final y after a consonant becomes i
_step1c(word) ==
    IF /\ EndsWith(word, <<"y">>)
       /\ Len(word) > 2
       /\ _is_consonant(word, Len(word) - 1)
    THEN DropLast(word, 1) \o <<"i">>
    ELSE word

\* double suffixes
Step2Rules ==
    <<[suffix |-> <<"a", "t", "i", "o", "n", "a", "l">>, replacement |-> <<"a", "t", "e">>, condition |-> "positive"],
      [suffix |-> <<"t", "i", "o", "n", "a", "l">>, replacement |-> <<"t", "i", "o", "n">>, condition |-> "positive"],
      [suffix |-> <<"e", "n", "c", "i">>, replacement |-> <<"e", "n", "c", "e">>, condition |-> "positive"],
      [suffix |-> <<"a", "n", "c", "i">>, replacement |-> <<"a", "n", "c", "e">>, condition |-> "positive"],
      [suffix |-> <<"i", "z", "e", "r">>, replacement |-> <<"i", "z", "e">>, condition |-> "positive"],
      [suffix |-> <<"b", "l", "i">>, replacement |-> <<"b", "l", "e">>, condition |-> "positive"],
      [suffix |-> <<"a", "l", "l", "i">>, replacement |-> <<"a", "l">>, condition |-> "positive"],
      [suffix |-> <<"e", "n", "t", "l", "i">>, replacement |-> <<"e", "n", "t">>, condition |-> "positive"],
      [suffix |-> <<"e", "l", "i">>, replacement |-> <<"e">>, condition |-> "positive"],
      [suffix |-> <<"o", "u", "s", "l", "i">>, replacement |-> <<"o", "u", "s">>, condition |-> "positive"],
      [suffix |-> <<"i", "z", "a", "t", "i", "o", "n">>, replacement |-> <<"i", "z", "e">>, condition |-> "positive"],
      [suffix |-> <<"a", "t", "i", "o", "n">>, replacement |-> <<"a", "t", "e">>, condition |-> "positive"],
      [suffix |-> <<"a", "t", "o", "r">>, replacement |-> <<"a", "t", "e">>, condition |-> "positive"],
      [suffix |-> <<"a", "l", "i", "s", "m">>, replacement |-> <<"a", "l">>, condition |-> "positive"],
      [suffix |-> <<"i", "v", "e", "n", "e", "s", "s">>, replacement |-> <<"i", "v", "e">>, condition |-> "positive"],
      [suffix |-> <<"f", "u", "l", "n", "e", "s", "s">>, replacement |-> <<"f", "u", "l">>, condition |-> "positive"],
      [suffix |-> <<"o", "u", "s", "n", "e", "s", "s">>, replacement |-> <<"o", "u", "s">>, condition |-> "positive"],
      [suffix |-> <<"a", "l", "i", "t", "i">>, replacement |-> <<"a", "l">>, condition |-> "positive"],
      [suffix |-> <<"i", "v", "i", "t", "i">>, replacement |-> <<"i", "v", "e">>, condition |-> "positive"],
      [suffix |-> <<"b", "i", "l", "i", "t", "i">>, replacement |-> <<"b", "l", "e">>, condition |-> "positive"],
      [suffix |-> <<"f", "u", "l", "l", "i">>, replacement |-> <<"f", "u", "l">>, condition |-> "positive"],
      [suffix |-> <<"l", "o", "g", "i">>, replacement |-> <<"l", "o", "g">>, condition |-> "logi"]>>

RECURSIVE _step2(_)
_step2(word) ==
    IF EndsWith(word, <<"a", "l", "l", "i">>) /\ _measure(DropLast(word, 4)) > 0
    THEN _step2(DropLast(word, 2))
    ELSE _apply_rule_list(word, Step2Rules)

\* -ic-, -full, -ness
Step3Rules ==
    <<[suffix |-> <<"i", "c", "a", "t", "e">>, replacement |-> <<"i", "c">>, condition |-> "positive"],
      [suffix |-> <<"a", "t", "i", "v", "e">>, replacement |-> <<>>, condition |-> "positive"],
      [suffix |-> <<"a", "l", "i", "z", "e">>, replacement |-> <<"a", "l">>, condition |-> "positive"],
      [suffix |-> <<"i", "c", "i", "t", "i">>, replacement |-> <<"i", "c">>, condition |-> "positive"],
      [suffix |-> <<"i", "c", "a", "l">>, replacement |-> <<"i", "c">>, condition |-> "positive"],
      [suffix |-> <<"f", "u", "l">>, replacement |-> <<>>, condition |-> "positive"],
      [suffix |-> <<"n", "e", "s", "s">>, replacement |-> <<>>, condition |-> "positive"]>>

\* -ant, -ence and the like, on a stem of measure above 1
Step4Rules ==
    <<[suffix |-> <<"a", "l">>, replacement |-> <<>>, condition |-> "gt1"],
      [suffix |-> <<"a", "n", "c", "e">>, replacement |-> <<>>, condition |-> "gt1"],
      [suffix |-> <<"e", "n", "c", "e">>, replacement |-> <<>>, condition |-> "gt1"],
      [suffix |-> <<"e", "r">>, replacement |-> <<>>, condition |-> "gt1"],
      [suffix |-> <<"i", "c">>, replacement |-> <<>>, condition |-> "gt1"],
      [suffix |-> <<"a", "b", "l", "e">>, replacement |-> <<>>, condition |-> "gt1"],
      [suffix |-> <<"i", "b", "l", "e">>, replacement |-> <<>>, condition |-> "gt1"],
      [suffix |-> <<"a", "n", "t">>, replacement |-> <<>>, condition |-> "gt1"],
      [suffix |-> <<"e", "m", "e", "n", "t">>, replacement |-> <<>>, condition |-> "gt1"],
      [suffix |-> <<"m", "e", "n", "t">>, replacement |-> <<>>, condition |-> "gt1"],
      [suffix |-> <<"e", "n", "t">>, replacement |-> <<>>, condition |-> "gt1"],
      [suffix |-> <<"i", "o", "n">>, replacement |-> <<>>, condition |-> "ion"],
      [suffix |-> <<"o", "u">>, replacement |-> <<>>, condition |-> "gt1"],
      [suffix |-> <<"i", "s", "m">>, replacement |-> <<>>, condition |-> "gt1"],
      [suffix |-> <<"a", "t", "e">>, replacement |-> <<>>, condition |-> "gt1"],
      [suffix |-> <<"i", "t", "i">>, replacement |-> <<>>, condition |-> "gt1"],
      [suffix |-> <<"o", "u", "s">>, replacement |-> <<>>, condition |-> "gt1"],
      [suffix |-> <<"i", "v", "e">>, replacement |-> <<>>, condition |-> "gt1"],
      [suffix |-> <<"i", "z", "e">>, replacement |-> <<>>, condition |-> "gt1"]>>

\* a final e goes when the stem is long enough
_step5a(word) ==
    IF EndsWith(word, <<"e">>)
       /\ \/ _measure(DropLast(word, 1)) > 1
          \/ _measure(DropLast(word, 1)) = 1 /\ ~_ends_cvc(DropLast(word, 1))
    THEN DropLast(word, 1)
    ELSE word

_step5b(word) ==
    IF EndsWith(word, <<"l", "l">>) /\ _measure(DropLast(word, 1)) > 1
    THEN DropLast(word, 1)
    ELSE word

\* PorterStemmer's irregular forms
IrregularForms ==
    (<<"s", "k", "y">> :> <<"s", "k", "y">>) @@
    (<<"s", "k", "i", "e", "s">> :> <<"s", "k", "y">>) @@
    (<<"d", "y", "i", "n", "g">> :> <<"d", "i", "e">>) @@
    (<<"l", "y", "i", "n", "g">> :> <<"l", "i", "e">>) @@
    (<<"t", "y", "i", "n", "g">> :> <<"t", "i", "e">>) @@
    (<<"n", "e", "w", "s">> :> <<"n", "e", "w", "s">>) @@
    (<<"i", "n", "n", "i", "n", "g", "s">> :> <<"i", "n", "n", "i", "n", "g">>) @@
    (<<"i", "n", "n", "i", "n", "g">> :> <<"i", "n", "n", "i", "n", "g">>) @@
    (<<"o", "u", "t", "i", "n", "g", "s">> :> <<"o", "u", "t", "i", "n", "g">>) @@
    (<<"o", "u", "t", "i", "n", "g">> :> <<"o", "u", "t", "i", "n", "g">>) @@
    (<<"c", "a", "n", "n", "i", "n", "g", "s">> :> <<"c", "a", "n", "n", "i", "n", "g">>) @@
    (<<"c", "a", "n", "n", "i", "n", "g">> :> <<"c", "a", "n", "n", "i", "n", "g">>) @@
    (<<"h", "o", "w", "e">> :> <<"h", "o", "w", "e">>) @@
    (<<"p", "r", "o", "c", "e", "e", "d">> :> <<"p", "r", "o", "c", "e", "e", "d">>) @@
    (<<"e", "x", "c", "e", "e", "d">> :> <<"e", "x", "c", "e", "e", "d">>) @@
    (<<"s", "u", "c", "c", "e", "e", "d">> :> <<"s", "u", "c", "c", "e", "e", "d">>)

\* PorterStemmer().stem(word), on a lower-case word
Stem(w) ==
    IF w \in DOMAIN IrregularForms THEN IrregularForms[w]
    ELSE IF Len(w) <= 2 THEN w
    ELSE _step5b(_step5a(_apply_rule_list(_apply_rule_list(
             _step2(_step1c(_step1b(_step1a(w)))), Step3Rules), Step4Rules)))

\* the words NLTKWordTokenizer.CONTRACTIONS2 parts in two that letters alone
\* spell: can|not, gim|me, gon|na, got|ta, lem|me, wan|na
Contractions ==
    {<<"c", "a", "n", "n", "o", "t">>, <<"g", "i", "m", "m", "e">>,
     <<"g", "o", "n", "n", "a">>, <<"g", "o", "t", "t", "a">>,
     <<"l", "e", "m", "m", "e">>, <<"w", "a", "n", "n", "a">>}

RECURSIVE SplitContractions(_)
SplitContractions(tokens) ==
    IF tokens = <<>> THEN <<>>
    ELSE (IF Head(tokens) \in Contractions
          THEN <<SubSeq(Head(tokens), 1, 3), SubSeq(Head(tokens), 4, Len(Head(tokens)))>>
          ELSE <<Head(tokens)>>) \o SplitContractions(Tail(tokens))

\* nltk's word_tokenize on lower-case letters and blanks: the words between
\* the blanks, a contraction as its two parts
word_tokenize(text) ==
    SplitContractions(split(text))

\* re.sub(r'[^a-zA-Z\s]', '', text.lower()) keeps letters and whitespace
extract_keywords(text) ==
    IF text = <<>>
    THEN {}
    ELSE {Stem(t) : t \in {tok \in Range(word_tokenize(SelectSeq(lower(text),
                                   LAMBDA c : c \in Range(LowerCase) \/ c = " "))) :
                              tok \notin StopWords /\ Len(tok) > 2}}

\* how many of the topic's words occur in the str s
RECURSIVE CountIn(_, _)
CountIn(words, s) ==
    IF words = <<>> THEN 0
    ELSE (IF IsSubstr(Head(words), s) THEN 1 ELSE 0) + CountIn(Tail(words), s)

\* f"{title} {description} {content}".lower() without the filler
ArticleText(ltitle, description, content) ==
    ltitle \o <<" ">> \o lower(description.txt) \o <<" ">> \o lower(content.txt)

\* base_score = 0.2
base_score ==
    Float(2, 10)

\* word_bonus += 0.2
WordBonus ==
    Float(2, 10)

\* title_boost += 0.3
TitleBoost ==
    Float(3, 10)

\* the score from the keywords of both sides and the topic's words longer than
\* one character: base_score + keyword_score + word_bonus + title_boost, each
\* sum rounded as it is taken, capped at 1.0
RelevanceTotal(topic_keywords, article_keywords, original_words, ltitle, article_text) ==
    IF article_keywords = {}
    THEN Float(3, 10)
    ELSE FMin(FAdd(FAdd(FAdd(base_score,
                             Float(Cardinality(topic_keywords \cap article_keywords),
                                   Cardinality(topic_keywords))),
                        Accumulate(WordBonus, CountIn(original_words, article_text))),
                   Accumulate(TitleBoost, CountIn(original_words, ltitle))),
              One)

ScoreFields(topic_keywords, search_topic, title, description, content) ==
    IF topic_keywords = {}
    THEN [raised |-> FALSE, score |-> Float(1, 2)]
    ELSE IF title = None \/ description = None \/ content = None
    THEN [raised |-> TRUE, score |-> Zero]
    ELSE [raised |-> FALSE,
          score |-> RelevanceTotal(
                        topic_keywords,
                        extract_keywords(ArticleText(lower(title.txt), description, content)),
                        SelectSeq(split(lower(search_topic)), LAMBDA w : Len(w) > 1),
                        lower(title.txt),
                        ArticleText(lower(title.txt), description, content))]

\* [raised, score]: raised when .lower() is called on None
calculate_relevance_score(article, search_topic) ==
    ScoreFields(extract_keywords(search_topic), search_topic,
                Get(article, "title", EmptyText),
                Get(article, "description", EmptyText),
                Get(article, "text_content", EmptyText))

----------------------------------------------------------------------------
(* app/tools/relevance_filter.py: filter_relevant_articles *)

\* list.sort(key=relevance_score, reverse=True): stable, descending
RECURSIVE InsertDesc(_, _)
InsertDesc(a, sorted) ==
    IF sorted = <<>> THEN <<a>>
    ELSE IF FLt(Head(sorted).relevance_score, a.relevance_score)
         THEN <<a>> \o sorted
         ELSE <<Head(sorted)>> \o InsertDesc(a, Tail(sorted))

RECURSIVE SortDesc(_)
SortDesc(s) ==
    IF s = <<>> THEN <<>>
    ELSE InsertDesc(s[Len(s)], SortDesc(SubSeq(s, 1, Len(s) - 1)))

\* one turn of the loop: the article is kept, with its score, when it passes
ScoreStep(article, r, rest, min_relevance) ==
    IF r.raised \/ rest.raised THEN [raised |-> TRUE, ret |-> <<>>]
    ELSE IF FLe(min_relevance, r.score)
    THEN [raised |-> FALSE,
          ret |-> <<[relevance_score |-> r.score] @@ article>> \o rest.ret]
    ELSE rest

\* the scored copies of the articles that pass, in input order; raised when a
\* score raises
RECURSIVE ScoreArticles(_, _, _)
ScoreArticles(articles, search_topic, min_relevance) ==
    IF articles = <<>> THEN [raised |-> FALSE, ret |-> <<>>]
    ELSE ScoreStep(Head(articles),
                   calculate_relevance_score(Head(articles), search_topic),
                   ScoreArticles(Tail(articles), search_topic, min_relevance),
                   min_relevance)

SortScored(scored) ==
    IF scored.raised THEN scored
    ELSE [raised |-> FALSE, ret |-> SortDesc(scored.ret)]

\* search_news passes no max_articles, so the list is not cut here
filter_relevant_articles(articles, search_topic, min_relevance) ==
    SortScored(ScoreArticles(articles, search_topic, min_relevance))

\* enhance_search_terms returns the topic unchanged
enhance_search_terms(original_topic) ==
    original_topic

----------------------------------------------------------------------------
(* app/tools/article_extractor.py, as the retrieval service uses it *)

\* the paywall message of the provider's free plan
Paywall ==
    <<"O", "N", "L", "Y", " ", "A", "V", "A", "I", "L", "A", "B", "L", "E", " ",
      "I", "N", " ", "P", "A", "I", "D", " ", "P", "L", "A", "N", "S">>

\* blocked_domains and blocked_patterns, on the URLs of the model
is_extractable_url(url) ==
    url # "" /\ url # "https://twitter.com/post"

\* blacklisted_patterns, on the URLs of the model
_is_blacklisted(url) ==
    url = "https://twitter.com/post"

\* the result that the loop over the three strategies returns for the page at
\* url: the first one that succeeds with more than 100 characters, or None when
\* none does. The page at .../brief holds 60 characters: a strategy accepts
\* them, the loop does not
WebPage(url) ==
    CASE url = "http://news.site/ok" ->
            [text |-> Text(<<"r", "a", "i", "n">>, 300), method |-> "trafilatura"]
      [] url = "https://news.yahoo.com/story" ->
            [text |-> Text(<<"n", "e", "w", "s">>, 300), method |-> "newspaper"]
      [] url = "http://news.site/brief" -> None
      [] url = "http://news.site/wall" ->
            [text |-> Text(Paywall, 300), method |-> "trafilatura"]
      [] OTHER -> None

extract_article_content(url) ==
    IF url = ""
    THEN [success |-> FALSE, text |-> EmptyText, error |-> "Invalid URL"]
    ELSE IF _is_blacklisted(url)
    THEN [success |-> FALSE, text |-> EmptyText,
          error |-> "URL blacklisted for extraction"]
    ELSE IF WebPage(url) # None
    THEN [success |-> TRUE, text |-> WebPage(url).text, method |-> WebPage(url).method]
    ELSE [success |-> FALSE, text |-> EmptyText,
          error |-> "All extraction methods failed or timed out"]

----------------------------------------------------------------------------
(* app/tools/fetch_news.py *)

RECURSIVE NatStr(_)
NatStr(n) ==
    IF n < 10
    THEN <<(<<"0", "1", "2", "3", "4", "5", "6", "7", "8", "9">>)[n + 1]>>
    ELSE NatStr(n \div 10) \o NatStr(n % 10)

\* str(n) of an int
IntStr(n) ==
    IF n < 0 THEN <<"-">> \o NatStr(0 - n) ELSE NatStr(n)

\* f"search_{topic}_{language}_{max_articles}"
SearchKey(topic, language, max_articles) ==
    <<"s", "e", "a", "r", "c", "h", "_">> \o topic \o <<"_">> \o language
    \o <<"_">> \o IntStr(max_articles)

\* the diskcache store in cache_dir: a function from keys to values
EmptyCache ==
    <<>>

\* cache.get(key): <<value>>, or <<>> for Python's None
CacheGet(c, key) ==
    IF key \in DOMAIN c THEN <<c[key]>> ELSE <<>>

\* cache.set(key, value, expire=ttl)
CacheSet(c, key, value) ==
    (key :> value) @@ c

\* the provider's answers: a transport error, a non-200 status, a body that is
\* not JSON (requests raises a RequestException), an error payload, a JSON
\* body that is no object, a payload whose articles are null, or a payload
\* with a list of articles
ResponseOk(articles) ==
    [kind |-> "ok", articles |-> articles]

FailureKinds ==
    {"transport", "http_error", "bad_json", "api_error", "not_object",
     "null_articles"}

\* [raised, status, data]: raised when result.get fails on a JSON array; the
\* data of a null_articles payload is None
_make_request(resp) ==
    CASE resp.kind \in {"transport", "http_error", "bad_json", "api_error"} ->
            [raised |-> FALSE, status |-> "error", data |-> <<>>]
      [] resp.kind = "not_object" ->
            [raised |-> TRUE, status |-> "error", data |-> <<>>]
      [] resp.kind = "null_articles" ->
            [raised |-> FALSE, status |-> "success", data |-> None]
      [] OTHER ->
            [raised |-> FALSE, status |-> "success", data |-> resp.articles]

\* how many characters of s from position i on are in chars
RECURSIVE Span(_, _, _)
Span(s, i, chars) ==
    IF i <= Len(s) /\ s[i] \in chars THEN 1 + Span(s, i + 1, chars) ELSE 0

\* \s*\[\+\d+\s+chars\] matches s from position p on
MarkerAt(s, p) ==
    LET b == p + Span(s, p, {" "})
        d == Span(s, b + 2, {"0", "1", "2", "3", "4", "5", "6", "7", "8", "9"})
        w == Span(s, b + 2 + d, {" "})
    IN  /\ b + 1 <= Len(s)
        /\ SubSeq(s, b, b + 1) = <<"[", "+">>
        /\ d >= 1
        /\ w >= 1
        /\ b + 2 + d + w + 5 <= Len(s)
        /\ SubSeq(s, b + 2 + d + w, b + 2 + d + w + 5) = <<"c", "h", "a", "r", "s", "]">>

\* re.sub(r'\s*\[\+\d+\s+chars\].*$', '', content_text) when '[+' and 'chars]'
\* are both in the text: the text is cut at the leftmost match, blanks before
\* the marker included
CleanTruncation(content_text) ==
    IF /\ IsSubstr(<<"[", "+">>, content_text.txt)
       /\ IsSubstr(<<"c", "h", "a", "r", "s", "]">>, content_text.txt)
       /\ \E p \in 1..Len(content_text.txt) : MarkerAt(content_text.txt, p)
    THEN Text(SubSeq(content_text.txt, 1,
                     (CHOOSE p \in 1..Len(content_text.txt) :
                         /\ MarkerAt(content_text.txt, p)
                         /\ \A q \in 1..(p - 1) : ~MarkerAt(content_text.txt, q)) - 1), 0)
    ELSE content_text

\* one provider item normalized: text_content is content or description,
\* without a "[+N chars]" marker and what follows it
ProcessOne(article) ==
    [title |-> Get(article, "title", Text(<<"N", "o", " ", "t", "i", "t", "l", "e">>, 0)),
     description |-> Get(article, "description", EmptyText),
     content |-> Get(article, "content", EmptyText),
     url |-> Get(article, "url", ""),
     source |-> IF Get(article, "source", None) # None
                THEN Get(article.source, "name", "Unknown")
                ELSE "Unknown",
     text_content |-> CleanTruncation(IF Truthy(Get(article, "content", EmptyText))
                                      THEN Get(article, "content", EmptyText)
                                      ELSE Get(article, "description", EmptyText))]

RECURSIVE _process_articles(_)
_process_articles(articles) ==
    IF articles = <<>> THEN <<>>
    ELSE LET a == Head(articles)
         IN  IF ~Truthy(Get(a, "description", None)) /\ ~Truthy(Get(a, "content", None))
             THEN _process_articles(Tail(articles))
             ELSE <<ProcessOne(a)>> \o _process_articles(Tail(articles))

HasPaywall(t) ==
    IsSubstr(Paywall, t.txt)

has_truncation(text_content) ==
    \/ (IsSubstr(<<"[", "+">>, text_content.txt)
        /\ IsSubstr(<<"c", "h", "a", "r", "s", "]">>, text_content.txt))
    \/ (text_content.pad = 0 /\ Len(text_content.txt) >= 3
        /\ SubSeq(text_content.txt, Len(text_content.txt) - 2, Len(text_content.txt))
           = <<".", ".", ".">>)
    \/ TLen(text_content) = 200
    \/ HasPaywall(text_content)

\* what the extraction result does to the article
ApplyExtraction(article, extraction_result) ==
    IF extraction_result.success
    THEN [text_content |-> extraction_result.text,
          extraction_method |-> extraction_result.method,
          extraction_success |-> TRUE] @@ article
    ELSE [extraction_success |-> FALSE,
          extraction_error |-> extraction_result.error] @@ article

EnhanceWith(article, url, text_content) ==
    IF url = "" \/ ~is_extractable_url(url) THEN article
    ELSE IF Truthy(text_content) /\ TLen(text_content) > 500
            /\ ~has_truncation(text_content)
    THEN article
    ELSE IF url = "https://news.yahoo.com/story" THEN article
    ELSE ApplyExtraction(article, extract_article_content(url))

EnhanceOne(article) ==
    EnhanceWith(article, Get(article, "url", ""),
                Get(article, "text_content", EmptyText))

_enhance_articles_with_extraction(articles) ==
    [i \in DOMAIN articles |-> EnhanceOne(articles[i])]

\* s[:k] of a list, k of either sign
Slice(s, k) ==
    IF k >= 0
    THEN SubSeq(s, 1, IF k < Len(s) THEN k ELSE Len(s))
    ELSE SubSeq(s, 1, Len(s) + k)

\* "if cached_result:" of a cached list: a stored empty list is not a hit
CacheHit(cached_result) ==
    cached_result # <<>> /\ cached_result[1] # <<>>

\* what search_news returns: [raised, ret, cache, requested]
SearchResult(raised, r, c, requested) ==
    [raised |-> raised, ret |-> r, cache |-> c, requested |-> requested]

\* the relevant articles cut to max_articles, stored and returned
SearchFiltered(c, cache_key, max_articles, relevant) ==
    IF relevant.raised THEN SearchResult(TRUE, <<>>, c, TRUE)
    ELSE SearchResult(FALSE, Slice(relevant.ret, max_articles),
                      CacheSet(c, cache_key, Slice(relevant.ret, max_articles)), TRUE)

\* search_news after the provider's answer; response.data is None for a
\* null_articles payload and no other, and the loop of _process_articles
\* raises TypeError on it
SearchResponse(topic, max_articles, c, cache_key, resp, response) ==
    IF response.raised THEN SearchResult(TRUE, <<>>, c, TRUE)
    ELSE IF response.status # "success" THEN SearchResult(FALSE, <<>>, c, TRUE)
    ELSE IF resp.kind = "null_articles" THEN SearchResult(TRUE, <<>>, c, TRUE)
    ELSE SearchFiltered(c, cache_key, max_articles,
                        filter_relevant_articles(
                            _enhance_articles_with_extraction(
                                _process_articles(response.data)),
                            topic, Float(1, 10)))

SearchCached(topic, max_articles, c, cache_key, resp) ==
    IF CacheHit(CacheGet(c, cache_key))
    THEN SearchResult(FALSE, CacheGet(c, cache_key)[1], c, FALSE)
    ELSE SearchResponse(topic, max_articles, c, cache_key, resp, _make_request(resp))

\* search_news with the provider answering resp when asked, with extraction
\* enabled
search_news(topic, language, max_articles, c, resp) ==
    SearchCached(topic, max_articles, c, SearchKey(topic, language, max_articles), resp)

\* str.upper()
upper(s) ==
    [i \in DOMAIN s |->
        IF \E k \in DOMAIN LowerCase : LowerCase[k] = s[i]
        THEN UpperCase[CHOOSE k \in DOMAIN LowerCase : LowerCase[k] = s[i]]
        ELSE s[i]]

\* str.title(): a letter is upper case after a character that is no letter,
\* and lower case after a letter
title(s) ==
    [i \in DOMAIN s |->
        IF i > 1 /\ upper(<<s[i - 1]>>) # lower(<<s[i - 1]>>)
        THEN lower(<<s[i]>>)[1] ELSE upper(<<s[i]>>)[1]]

\* significant_words[:2]
significant_words(article) ==
    LET words == SelectSeq(split(Get(article, "title", <<>>)), LAMBDA w : Len(w) > 4)
    IN  SubSeq([i \in DOMAIN words |-> lower(words[i])], 1,
               IF Len(words) < 2 THEN Len(words) ELSE 2)

all_topics(article) ==
    Get(article, "categories", <<>>) \o significant_words(article)

latest_article(article) ==
    [title |-> Get(article, "title", <<>>), url |-> Get(article, "url", ""),
     published_at |-> Get(article, "publishedAt", "")]

\* the entry of topic_key in topics, a dict in insertion order
TopicEntry(topics, topic_key) ==
    CHOOSE i \in DOMAIN topics : topics[i].key = topic_key

\* "if not topics[topic_key]['latest_article']": an article once set is kept
Representative(entry, article) ==
    IF entry.latest_article = None THEN latest_article(article)
    ELSE entry.latest_article

\* one turn of "for topic in all_topics"
CountTopic(topics, article, topic) ==
    IF Len(topic) = 0 \/ Len(topic) <= 3 THEN topics
    ELSE LET topic_key == lower(topic)
             known == IF \E i \in DOMAIN topics : topics[i].key = topic_key
                      THEN topics
                      ELSE Append(topics, [key |-> topic_key, topic |-> title(topic),
                                           count |-> 0, latest_article |-> None])
             i == TopicEntry(known, topic_key)
         IN  [known EXCEPT ![i].count = @ + 1,
                           ![i].latest_article = Representative(known[i], article)]

RECURSIVE CountTopics(_, _, _)
CountTopics(topics, article, names) ==
    IF names = <<>> THEN topics
    ELSE CountTopics(CountTopic(topics, article, Head(names)), article, Tail(names))

RECURSIVE CountArticles(_, _)
CountArticles(topics, articles) ==
    IF articles = <<>> THEN topics
    ELSE CountArticles(CountTopics(topics, Head(articles), all_topics(Head(articles))),
                       Tail(articles))

RECURSIVE InsertByCount(_, _)
InsertByCount(a, sorted) ==
    IF sorted = <<>> THEN <<a>>
    ELSE IF Head(sorted).count < a.count THEN <<a>> \o sorted
    ELSE <<Head(sorted)>> \o InsertByCount(a, Tail(sorted))

RECURSIVE SortByCount(_)
\* sorted(topics.values(), key=count, reverse=True): stable
SortByCount(s) ==
    IF s = <<>> THEN <<>>
    ELSE InsertByCount(s[Len(s)], SortByCount(SubSeq(s, 1, Len(s) - 1)))

\* the records returned: the topic, its count and its article
_extract_trending_topics(articles) ==
    LET trending == SortByCount(CountArticles(<<>>, articles))
    IN  [i \in 1..(IF Len(trending) < 10 THEN Len(trending) ELSE 10) |->
            [topic |-> trending[i].topic, count |-> trending[i].count,
             latest_article |-> trending[i].latest_article]]

\* f"trending_{language}"
TrendingKey(language) ==
    <<"t", "r", "e", "n", "d", "i", "n", "g", "_">> \o language

\* get_trending_topics with the provider answering resp when asked: the topics
\* are stored, for half of cache_ttl, and returned; the loop of
\* _extract_trending_topics raises TypeError on a data of None
get_trending_topics(language, c, resp) ==
    IF CacheHit(CacheGet(c, TrendingKey(language)))
    THEN SearchResult(FALSE, CacheGet(c, TrendingKey(language))[1], c, FALSE)
    ELSE IF _make_request(resp).raised \/ resp.kind = "null_articles"
    THEN SearchResult(TRUE, <<>>, c, TRUE)
    ELSE IF _make_request(resp).status # "success"
    THEN SearchResult(FALSE, <<>>, c, TRUE)
    ELSE SearchResult(FALSE, _extract_trending_topics(_make_request(resp).data),
                      CacheSet(c, TrendingKey(language),
                               _extract_trending_topics(_make_request(resp).data)),
                      TRUE)

----------------------------------------------------------------------------
(* app/tools/summarize.py.  A str built by concatenation is a sequence of   *)
(* texts, one after the other.                                              *)

RECURSIVE DocLen(_)
DocLen(doc) ==
    IF doc = <<>> THEN 0 ELSE TLen(Head(doc)) + DocLen(Tail(doc))

\* the characters of a str, filler included
RECURSIVE Flatten(_)
Flatten(doc) ==
    IF doc = <<>> THEN <<>>
    ELSE Head(doc).txt \o [i \in 1..Head(doc).pad |-> "0"] \o Flatten(Tail(doc))

DocStripLen_mut_raw(doc) ==
    DocLen(doc)

\* len(text.strip())
DocStripLen(doc) ==
    Len(strip(Flatten(doc)))

\* hashlib.md5(f"{text}_{max_length}_{min_length}_{self.model_name}"): the
\* digest is "#" before what was hashed; no two contents share a digest
_generate_cache_key_mut_nomin(text, max_length, min_length) ==
    <<"#">> \o Flatten(text) \o <<"_">> \o IntStr(max_length) \o <<"_">>
    \o <<"f", "a", "c", "e",
       "b", "o", "o", "k", "/", "b", "a", "r", "t", "-", "l", "a", "r", "g", "e", "-", "c", "n", "n">>

_generate_cache_key(text, max_length, min_length) ==
    <<"#">> \o Flatten(text) \o <<"_">> \o IntStr(max_length) \o <<"_">>
    \o IntStr(min_length) \o <<"_">>
    \o <<"f", "a", "c", "e",
       "b", "o", "o", "k", "/", "b", "a", "r", "t", "-", "l", "a", "r", "g", "e", "-", "c", "n", "n">>

NotAvailable ==
    Text(<<"C", "o", "n", "t", "e", "n", "t", " ", "n", "o", "t", " ",
         "a", "v", "a", "i", "l", "a", "b", "l", "e", " ", "f", "o",
         "r", " ", "s", "u", "m", "m", "a", "r", "i", "z", "a", "t",
         "i", "o", "n", " ", "(", "r", "e", "q", "u", "i", "r", "e",
         "s", " ", "p", "a", "i", "d", " ", "p", "l", "a", "n", ")",
         ".">>, 0)

UnableToGenerate ==
    Text(<<"U", "n", "a", "b", "l", "e", " ", "t", "o", " ", "g", "e",
         "n", "e", "r", "a", "t", "e", " ", "s", "u", "m", "m", "a",
         "r", "y", " ", "d", "u", "e", " ", "t", "o", " ", "t", "e",
         "c", "h", "n", "i", "c", "a", "l", " ", "l", "i", "m", "i",
         "t", "a", "t", "i", "o", "n", "s", ".">>, 0)

RECURSIVE DocTxt(_)
DocTxt(doc) ==
    IF doc = <<>> THEN <<>> ELSE Head(doc).txt \o DocTxt(Tail(doc))

\* the summary the model generates: deterministic decoding, max_length
\* characters that name the input
Generate(text, max_length) ==
    LET head == <<"~">> \o DocTxt(text)
    IN  Text(head, IF max_length > Len(head) THEN max_length - Len(head) ELSE 0)

max_retries ==
    3

RECURSIVE RunAttempts_mut_nocap(_, _)
RunAttempts_mut_nocap(attempts, i) ==
    IF i > Len(attempts) THEN [ok |-> FALSE, calls |-> 0]
    ELSE IF attempts[i] = "ok" THEN [ok |-> TRUE, calls |-> 1]
    ELSE IF attempts[i] = "oom" THEN [ok |-> FALSE, calls |-> 1]
    ELSE [ok |-> RunAttempts_mut_nocap(attempts, i + 1).ok,
          calls |-> RunAttempts_mut_nocap(attempts, i + 1).calls + 1]

\* the retry loop from attempt i (1-based) on: [ok, calls], calls counting the
\* model invocations made
RECURSIVE RunAttempts(_, _)
RunAttempts(attempts, i) ==
    IF i > max_retries \/ i > Len(attempts) THEN [ok |-> FALSE, calls |-> 0]
    ELSE IF attempts[i] = "ok" THEN [ok |-> TRUE, calls |-> 1]
    ELSE IF attempts[i] = "oom" THEN [ok |-> FALSE, calls |-> 1]
    ELSE LET rest == RunAttempts(attempts, i + 1)
         IN  [ok |-> rest.ok, calls |-> rest.calls + 1]

SummaryResult(summary, text, summary_length, cached) ==
    [summary |-> summary, original_length |-> DocLen(text),
     summary_length |-> summary_length, cached |-> cached]

\* summarize_text with the model answering attempts: [ret, cache, calls]
summarize_text(text, max_length, min_length, c, attempts) ==
    LET cache_key == _generate_cache_key(text, max_length, min_length)
        cached_result == CacheGet(c, cache_key)
        run == RunAttempts(attempts, 1)
        summary == Generate(text, max_length)
        fresh == SummaryResult(summary, text, TLen(summary), FALSE)
    IN  IF DocLen(text) = 0 \/ DocStripLen(text) < 50
        THEN [ret |-> SummaryResult(NotAvailable, text, 0, FALSE),
              cache |-> c, calls |-> 0]
        ELSE IF cached_result # <<>>
        THEN [ret |-> [cached_result[1] EXCEPT !.cached = TRUE],
              cache |-> c, calls |-> 0]
        ELSE IF run.ok
        THEN [ret |-> fresh, cache |-> CacheSet(c, cache_key, fresh),
              calls |-> run.calls]
        ELSE [ret |-> SummaryResult(UnableToGenerate, text, 0, FALSE),
              cache |-> c, calls |-> run.calls]

\* article.get('text_content', article.get('description', ''))
ArticleBody(article) ==
    Get(article, "text_content", Get(article, "description", EmptyText))

\* article.copy() updated with the summary of outcome r, before the rest of
\* the loop
SummarizeJoin(article, r, rest) ==
    [raised |-> rest.raised,
     ret |-> IF rest.raised THEN <<>>
             ELSE <<[summary |-> r.ret.summary,
                     summary_length |-> r.ret.summary_length,
                     original_length |-> r.ret.original_length,
                     cached |-> r.ret.cached] @@ article>> \o rest.ret,
     cache |-> rest.cache,
     calls |-> r.calls + rest.calls]

RECURSIVE SummarizeFrom(_, _, _, _, _, _)
SummarizeNext(articles, i, max_length, min_length, env, r) ==
    SummarizeJoin(articles[i], r,
                  SummarizeFrom(articles, i + 1, max_length, min_length, r.cache, env))

\* summarize_articles from article i on, env[i] the model's answers for
\* article i: [raised, ret, cache, calls]; raised when a title is None
\* (the slice [:50] of the log line)
SummarizeFrom(articles, i, max_length, min_length, c, env) ==
    IF i > Len(articles)
    THEN [raised |-> FALSE, ret |-> <<>>, cache |-> c, calls |-> 0]
    ELSE IF Get(articles[i], "title", EmptyText) = None
    THEN [raised |-> TRUE, ret |-> <<>>, cache |-> c, calls |-> 0]
    ELSE SummarizeNext(articles, i, max_length, min_length, env,
                       summarize_text(<<ArticleBody(articles[i])>>, max_length,
                                      min_length, c, env[i]))

summarize_articles(articles, max_length, min_length, c, env) ==
    SummarizeFrom(articles, 1, max_length, min_length, c, env)

\* text_content[:200]
First200(t) ==
    IF TLen(t) <= 200 THEN t
    ELSE IF Len(t.txt) >= 200 THEN Text(SubSeq(t.txt, 1, 200), 0)
    ELSE Text(t.txt, 200 - Len(t.txt))

\* 'Content not available' in summary
SaysNotAvailable(summary) ==
    IsSubstr(SubSeq(NotAvailable.txt, 1, 21), summary.txt)

\* what one article adds to combined_text
CombinedPart(article) ==
    IF "summary" \in DOMAIN article /\ Truthy(article.summary)
       /\ ~SaysNotAvailable(article.summary)
    THEN <<article.summary, Text(<<" ">>, 0)>>
    ELSE IF Truthy(ArticleBody(article)) /\ ~HasPaywall(ArticleBody(article))
    THEN <<First200(ArticleBody(article)), Text(<<".", ".", ".", " ">>, 0)>>
    ELSE <<>>

RECURSIVE Combined(_)
Combined(articles) ==
    IF articles = <<>> THEN <<>>
    ELSE CombinedPart(Head(articles)) \o Combined(Tail(articles))

IsMeaningful_mut_50(article) ==
    Truthy(Get(article, "text_content", EmptyText))
    /\ TStripLen(Get(article, "text_content", EmptyText)) > 50
    /\ ~HasPaywall(Get(article, "text_content", EmptyText))

IsMeaningful(article) ==
    LET text_content == Get(article, "text_content", EmptyText)
    IN  Truthy(text_content) /\ TStripLen(text_content) > 100
        /\ ~HasPaywall(text_content)

DigestResult(digest, article_count, cached) ==
    [digest |-> digest, article_count |-> article_count, cached |-> cached]

\* "No articles to summarize."
NoArticlesDigest ==
    Text(<<"N", "o", " ", "a", "r", "t", "i", "c", "l", "e", "s">>, 14)

\* f"Found {len(articles)} articles, but full content requires a paid ..."
PaidPlanDigest(n) ==
    Text(<<"F", "o", "u", "n", "d", " ">> \o NatStr(n), 130)

\* "No content available for digest."
NoContentDigest ==
    Text(<<"N", "o", " ", "c", "o", "n", "t", "e", "n", "t">>, 22)

\* the digest made from the summary of combined_text, stored and returned
DigestFresh(cache_key, article_count, digest_result) ==
    [ret |-> DigestResult(digest_result.ret.summary, article_count, FALSE),
     cache |-> CacheSet(digest_result.cache, cache_key,
                        DigestResult(digest_result.ret.summary, article_count, FALSE)),
     calls |-> digest_result.calls]

DigestKeyed(articles, combined_text, max_length, c, attempts, cache_key) ==
    IF CacheGet(c, cache_key) # <<>>
    THEN [ret |-> [CacheGet(c, cache_key)[1] EXCEPT !.cached = TRUE],
          cache |-> c, calls |-> 0]
    ELSE DigestFresh(cache_key, Len(articles),
                     summarize_text(combined_text, max_length, 30, c, attempts))

DigestCombined(articles, combined_text, max_length, c, attempts) ==
    IF DocStripLen(combined_text) = 0
    THEN [ret |-> DigestResult(NoContentDigest, Len(articles), FALSE),
          cache |-> c, calls |-> 0]
    ELSE DigestKeyed(articles, combined_text, max_length, c, attempts,
                     _generate_cache_key(
                         <<Text(<<"d", "i", "g", "e", "s", "t", "_">>, 0)>>
                         \o combined_text, max_length, 30))

\* create_digest_summary with the model answering attempts:
\* [ret, cache, calls]
create_digest_summary(articles, max_length, c, attempts) ==
    IF articles = <<>>
    THEN [ret |-> DigestResult(NoArticlesDigest, 0, FALSE), cache |-> c, calls |-> 0]
    ELSE IF \A i \in DOMAIN articles : ~IsMeaningful(articles[i])
    THEN [ret |-> DigestResult(PaidPlanDigest(Len(articles)), Len(articles), FALSE),
          cache |-> c, calls |-> 0]
    ELSE DigestCombined(articles, Combined(articles), max_length, c, attempts)

----------------------------------------------------------------------------
(* The provider's items and answers, and the callers' arguments *)

\* the provider's items of the model
Item(k) ==
    CASE k = "short" ->
            \* 40 characters of description, no content
            [title |-> Text(<<"A", "I">>, 0), description |-> Text(<<"a", "i", " ">>, 37),
             content |-> None, url |-> "", source |-> [name |-> "BBC"]]
      [] k = "rich" ->
            \* 254 characters of content
            [title |-> Text(<<"R", "a", "i", "n">>, 0),
             description |-> Text(<<"r", "a", "i", "n", "s">>, 30),
             content |-> Text(<<"r", "a", "i", "n">>, 250),
             url |-> "", source |-> [name |-> "CNN"]]
      [] k = "nulldesc" ->
            \* "description": null
            [title |-> Text(<<"R", "a", "i", "n">>, 0), description |-> None,
             content |-> Text(<<"r", "a", "i", "n">>, 120),
             url |-> "", source |-> [name |-> "CNN"]]
      [] k = "nulltitle" ->
            \* "title": null and "source": null
            [title |-> None, description |-> Text(<<"n", "e", "w", "s">>, 60),
             content |-> None, url |-> "", source |-> None]
      [] k = "blank" ->
            \* neither description nor content
            [title |-> Text(<<"A", "I">>, 0), description |-> None,
             content |-> EmptyText, url |-> "", source |-> [name |-> "BBC"]]
      [] k = "marked" ->
            \* the provider's cut: 'rain rains [+120 chars]'
            [title |-> Text(<<"R", "a", "i", "n">>, 0),
             description |-> Text(<<"r", "a", "i", "n", "s">>, 30),
             content |-> Text(<<"r", "a", "i", "n", " ", "r", "a", "i", "n", "s", " ",
                                "[", "+", "1", "2", "0", " ", "c", "h", "a", "r", "s", "]">>, 0),
             url |-> "", source |-> [name |-> "CNN"]]
      [] k = "markdesc" ->
            \* no content and a marker inside the description:
            \* 'rains today [+7 chars] more'
            [title |-> Text(<<"A", "I">>, 0),
             description |-> Text(<<"r", "a", "i", "n", "s", " ", "t", "o", "d", "a", "y", " ",
                                    "[", "+", "7", " ", "c", "h", "a", "r", "s", "]", " ",
                                    "m", "o", "r", "e">>, 0),
             content |-> None, url |-> "", source |-> [name |-> "BBC"]]
      [] k = "xok" ->
            \* a short item whose page yields its full text
            [title |-> Text(<<"A", "I">>, 0),
             description |-> Text(<<"r", "a", "i", "n">>, 60),
             content |-> None, url |-> "http://news.site/ok",
             source |-> [name |-> "BBC"]]
      [] OTHER ->
            \* "xfail": a short item whose page cannot be extracted
            [title |-> Text(<<"A", "I">>, 0),
             description |-> Text(<<"n", "e", "w", "s">>, 60),
             content |-> None, url |-> "http://news.site/fail",
             source |-> [name |-> "AP"]]

MaxRaw ==
    3

PayloadCatalogue ==
    {<<>>,
     <<Item("short")>>,
     <<Item("rich")>>,
     <<Item("nulldesc")>>,
     <<Item("nulltitle")>>,
     <<Item("marked"), Item("markdesc")>>,
     <<Item("blank"), Item("xfail")>>,
     <<Item("rich"), Item("xok")>>,
     <<Item("short"), Item("xok"), Item("rich")>>,
     <<Item("rich"), Item("short"), Item("xok"), Item("xfail")>>}

\* the article lists a provider may answer with
Payloads ==
    {p \in PayloadCatalogue : Len(p) <= MaxRaw}

Responses ==
    {[kind |-> k] : k \in FailureKinds} \cup {ResponseOk(p) : p \in Payloads}

\* "", " a ", "AI", "rain", "a_b"
Topics ==
    {<<>>, <<" ", "a", " ">>, <<"A", "I">>, <<"r", "a", "i", "n">>, <<"a", "_", "b">>}

L_en == <<"e", "n">>

Languages ==
    {L_en}

MaxArticlesBound ==
    3

\* process_topic takes any int
MaxArticlesChoices ==
    (0 - 1)..MaxArticlesBound

----------------------------------------------------------------------------
(* app/agent.py: the workflow *)

NoError ==
    ""

NoArticlesError ==
    "No articles found for this topic. Please try a different search term."

\* a message: its role, the fixed words of its f-string and what it formats
Msg(role, text, args) ==
    [role |-> role, text |-> text, args |-> args]

\* AgentState(...) of process_topic; digest {} is <<>>, a digest d is <<d>>
InitialState(topic, language, max_articles) ==
    [messages |-> <<>>, topic |-> topic, language |-> language,
     max_articles |-> max_articles, articles |-> <<>>,
     summarized_articles |-> <<>>, digest |-> <<>>, error |-> NoError,
     retry_count |-> 0, quality_score |-> Zero]

InvalidTopic(topic) ==
    Len(topic) = 0 \/ Len(strip(topic)) < 2

_validate_input(state) ==
    IF InvalidTopic(state.topic)
    THEN [state EXCEPT !.error = "Topic must be at least 2 characters long"]
    ELSE [state EXCEPT !.retry_count = 0, !.quality_score = Zero,
                       !.articles = <<>>, !.summarized_articles = <<>>,
                       !.digest = <<>>,
                       !.messages = Append(@, Msg("human", "Summarize news about: ",
                                                  [topic |-> state.topic]))]

Extracted_mut_all(articles) ==
    articles

\* the articles _fetch_news keeps
Extracted(articles) ==
    SelectSeq(articles, LAMBDA a : Get(a, "extraction_success", TRUE))

\* the state after _fetch_news, r the outcome of search_news
FetchState(state, r) ==
    IF r.raised
    THEN [state EXCEPT !.error = "Failed to fetch news: "]
    ELSE [state EXCEPT !.articles = Extracted(r.ret),
                       !.messages = Append(@, Msg("ai", "Found articles about ",
                                                  [n |-> Len(Extracted(r.ret)),
                                                   topic |-> state.topic]))]

ContentScore_mut_flat(article) ==
    IF TLen(Get(article, "text_content", EmptyText)) > 200
    THEN Float(10, 10) ELSE Float(1, 10)

ContentScore(article) ==
    LET n == TLen(Get(article, "text_content", EmptyText))
    IN  IF n > 200 THEN Float(10, 10)
        ELSE IF n > 100 THEN Float(7, 10)
        ELSE IF n > 50 THEN Float(4, 10)
        ELSE Float(1, 10)

QualityScore(articles, max_articles) ==
    LET n == Len(articles)
        article_score == FMin(Float(n, max_articles), One)
        content_scores == [i \in DOMAIN articles |-> ContentScore(articles[i])]
        avg_content_score == FDiv(FSum(content_scores), FromInt(n))
        sources == {Get(articles[i], "source", "unknown") : i \in DOMAIN articles}
        source_diversity ==
            FMin(FDiv(FromInt(Cardinality(sources)),
                      FMax(FMul(FromInt(n), Float(7, 10)), One)), One)
    IN  FDiv(FSum(<<article_score, avg_content_score, source_diversity>>), FromInt(3))

EmptyError_mut_keep(state) ==
    state.error

\* the error _quality_check leaves when there are no articles
EmptyError(state) ==
    NoArticlesError

\* [raised, state]: raised on the division by max_articles = 0
_quality_check(state) ==
    IF state.articles = <<>>
    THEN [raised |-> FALSE,
          state |-> [state EXCEPT !.quality_score = Zero, !.error = EmptyError(state)]]
    ELSE IF state.max_articles = 0
    THEN [raised |-> TRUE, state |-> state]
    ELSE [raised |-> FALSE,
          state |-> [state EXCEPT !.quality_score =
                                      QualityScore(state.articles, state.max_articles)]]

\* one enhancement more
MaxRetries_mut_three ==
    2 + 1

MaxRetries ==
    2

RetriesLeft_mut_offbyone(retry_count) ==
    retry_count <= MaxRetries

\* state["retry_count"] < 2
RetriesLeft(retry_count) ==
    retry_count < MaxRetries

_should_enhance_search_mut_emptyfirst(state) ==
    IF state.error # NoError \/ state.articles = <<>> THEN "error"
    ELSE IF FLt(state.quality_score, Float(1, 2)) /\ RetriesLeft(state.retry_count)
    THEN "enhance"
    ELSE "proceed"

_should_enhance_search_mut_lowerror(state) ==
    IF state.error # NoError THEN "error"
    ELSE IF FLt(state.quality_score, Float(1, 2))
    THEN (IF RetriesLeft(state.retry_count) THEN "enhance" ELSE "error")
    ELSE IF state.articles = <<>> THEN "error"
    ELSE "proceed"

_should_enhance_search(state) ==
    IF state.error # NoError THEN "error"
    ELSE IF FLt(state.quality_score, Float(1, 2)) /\ RetriesLeft(state.retry_count)
    THEN "enhance"
    ELSE IF state.articles = <<>> THEN "error"
    ELSE "proceed"

enhancement_strategies(original_topic) ==
    <<original_topic \o <<" ", "n", "e", "w", "s">>,
      original_topic \o <<" ", "l", "a", "t", "e", "s", "t">>,
      original_topic \o <<" ", "u", "p", "d", "a", "t", "e", "s">>>>

_enhance_search(state) ==
    LET retry_count == state.retry_count + 1
        strategies == enhancement_strategies(state.topic)
    IN  IF retry_count <= Len(strategies)
        THEN [state EXCEPT !.retry_count = retry_count,
                           !.topic = strategies[retry_count],
                           !.messages = Append(@, Msg("ai", "Enhancing search with: ",
                                                      [topic |-> strategies[retry_count]]))]
        ELSE [state EXCEPT !.retry_count = retry_count]

\* (max_length, min_length) of _summarize_articles
SummaryLengths(article_count) ==
    IF article_count > 15 THEN <<100, 30>>
    ELSE IF article_count > 10 THEN <<130, 40>>
    ELSE <<150, 50>>

\* the state after _summarize_articles, r the outcome of summarize_articles
SummarizeState(state, r) ==
    IF r.raised
    THEN [state EXCEPT !.error = "Failed to summarize articles: "]
    ELSE [state EXCEPT !.summarized_articles = r.ret,
                       !.messages = Append(@, Msg("ai", "Summarized articles",
                                                  [n |-> Len(r.ret)]))]

DigestLength(article_count) ==
    IF 200 + article_count * 10 < 300 THEN 200 + article_count * 10 ELSE 300

\* the state after _create_digest, r the outcome of create_digest_summary
DigestState(state, r) ==
    [state EXCEPT !.digest = <<r.ret>>,
                  !.messages = Append(@, Msg("ai", "Created executive summary",
                                             [n |-> Len(state.summarized_articles)]))]

_format_response(state) ==
    [state EXCEPT !.messages = Append(@, Msg("ai", "News summary completed successfully!",
                                             [n |-> 0]))]

_handle_error(state) ==
    [state EXCEPT !.messages = Append(@, Msg("ai", "Error: ", [error |-> state.error]))]

Response_mut_status(final_state, topic, language) ==
    [status |-> IF final_state.error # NoError THEN "failed" ELSE "completed",
     topic |-> topic, workflow_messages |-> final_state.messages]

\* what process_topic returns for the final state
Response(final_state, topic, language) ==
    IF final_state.error # NoError
    THEN [status |-> "error", message |-> final_state.error, topic |-> topic,
          workflow_messages |-> final_state.messages]
    ELSE [status |-> "success", topic |-> topic, digest |-> final_state.digest,
          articles |-> final_state.summarized_articles,
          metadata |->
              [total_articles |-> Len(final_state.summarized_articles),
               language |-> language,
               cached_articles |->
                   Cardinality({i \in DOMAIN final_state.summarized_articles :
                                   Get(final_state.summarized_articles[i], "cached", FALSE)}),
               sources |-> {Get(final_state.summarized_articles[i], "source", "Unknown") :
                               i \in DOMAIN final_state.summarized_articles},
               quality_score |-> final_state.quality_score,
               retry_count |-> final_state.retry_count,
               workflow_steps |-> Len(final_state.messages)],
          workflow_messages |-> final_state.messages]

\* what process_topic's except clause returns
WorkflowFailure(topic) ==
    [status |-> "error", message |-> "Workflow failed: ", topic |-> topic]

----------------------------------------------------------------------------
(* One call of process_topic: the graph of _build_graph, node by node.  The  *)
(* cache directory may hold what an earlier process stored.  obs records     *)
(* what the run did.                                                         *)

NoState ==
    InitialState(<<>>, <<>>, 0)

NoCall ==
    [fn |-> "none", topic |-> <<>>, language |-> <<>>, max_articles |-> 0]

NoRet ==
    [status |-> "none"]

FreshObs ==
    [path |-> <<>>, search_calls |-> 0, requests |-> 0, sum_calls |-> 0,
     model_calls |-> 0, fetch_raised |-> 0, failures |-> {}, err_entry |-> {},
     changed_after_error |-> FALSE, zero_fetches |-> 0, fetches |-> 0,
     failure_raised |-> FALSE]

\* the stores an earlier process may have left in cache_dir
InitCaches ==
    {EmptyCache,
     search_news(<<"A", "I">>, L_en, 1, EmptyCache,
                 ResponseOk(<<Item("rich")>>)).cache,
     search_news(<<" ", "a", " ">>, L_en, 3, EmptyCache,
                 ResponseOk(<<Item("short")>>)).cache}

\* obs after a node ran from state before to state after
Ran(node, before, after, o) ==
    [o EXCEPT !.path = Append(o.path, node),
              !.err_entry = IF before.error # NoError THEN o.err_entry \cup {node}
                            ELSE o.err_entry,
              !.changed_after_error =
                  o.changed_after_error
                  \/ (before.error # NoError
                      /\ (before.articles # after.articles
                          \/ before.summarized_articles # after.summarized_articles
                          \/ before.digest # after.digest))]

WfInit ==
    /\ pc = "idle"
    /\ st = NoState
    /\ cache \in InitCaches
    /\ obs = FreshObs
    /\ call = NoCall
    /\ ret = NoRet

\* process_topic(topic, max_articles, language) builds the state and invokes
\* the graph
Start ==
    /\ pc = "idle"
    /\ \E topic \in Topics, language \in Languages, max_articles \in MaxArticlesChoices :
          /\ call' = [fn |-> "process_topic", topic |-> topic,
                      language |-> language, max_articles |-> max_articles]
          /\ st' = InitialState(topic, language, max_articles)
    /\ pc' = "validate_input"
    /\ UNCHANGED <<cache, obs, ret>>

\* add_edge("validate_input", "fetch_news"): whatever the state
AfterValidate(state) ==
    "fetch_news"

ValidateInput ==
    /\ pc = "validate_input"
    /\ st' = _validate_input(st)
    /\ pc' = AfterValidate(st')
    /\ obs' = Ran("validate_input", st, st', obs)
    /\ UNCHANGED <<cache, call, ret>>

\* _fetch_news after search_news returned or raised, with what obs records
FetchDone(r, resp) ==
    /\ st' = FetchState(st, r)
    /\ cache' = r.cache
    /\ obs' = [Ran("fetch_news", st, st', obs) EXCEPT
                  !.search_calls = obs.search_calls + 1,
                  !.fetches = obs.fetches + 1,
                  !.requests = obs.requests + (IF r.requested THEN 1 ELSE 0),
                  !.fetch_raised = obs.fetch_raised + (IF r.raised THEN 1 ELSE 0),
                  !.failures = IF r.requested /\ resp.kind \in FailureKinds
                               THEN obs.failures \cup {resp.kind} ELSE obs.failures,
                  !.failure_raised =
                      obs.failure_raised
                      \/ (r.requested /\ resp.kind \in FailureKinds /\ r.raised),
                  !.zero_fetches = obs.zero_fetches
                                   + (IF ~r.raised /\ st'.articles = <<>> THEN 1 ELSE 0)]

FetchNews ==
    /\ pc = "fetch_news"
    /\ \E resp \in Responses :
          FetchDone(search_news(st.topic, st.language, st.max_articles, cache, resp),
                    resp)
    /\ pc' = "quality_check"
    /\ UNCHANGED <<call, ret>>

\* the node of the graph that a route of _should_enhance_search leads to
RouteNode(route) ==
    CASE route = "enhance" -> "enhance_search"
      [] route = "proceed" -> "summarize_articles"
      [] OTHER -> "handle_error"

\* an exception that leaves the graph is caught by process_topic
QualityDone(r) ==
    IF r.raised
    THEN /\ pc' = "done"
         /\ ret' = WorkflowFailure(call.topic)
         /\ st' = st
         /\ obs' = Ran("quality_check", st, st, obs)
    ELSE /\ st' = r.state
         /\ pc' = RouteNode(_should_enhance_search(r.state))
         /\ ret' = ret
         /\ obs' = Ran("quality_check", st, r.state, obs)

QualityCheck ==
    /\ pc = "quality_check"
    /\ QualityDone(_quality_check(st))
    /\ UNCHANGED <<cache, call>>

EnhanceSearch ==
    /\ pc = "enhance_search"
    /\ st' = _enhance_search(st)
    /\ pc' = "fetch_news"
    /\ obs' = Ran("enhance_search", st, st', obs)
    /\ UNCHANGED <<cache, call, ret>>

\* the model's answers one summarize_text call may meet
WfAttempts ==
    {<<"ok">>, <<"err", "busy", "err">>}

\* a node that called the summarizer with outcome r and left the state after
SummarizerDone(node, after, r) ==
    /\ st' = after
    /\ cache' = r.cache
    /\ obs' = [Ran(node, st, after, obs) EXCEPT
                  !.sum_calls = obs.sum_calls + 1,
                  !.model_calls = obs.model_calls + r.calls]

SummarizeWith(r) ==
    SummarizerDone("summarize_articles", SummarizeState(st, r), r)

SummarizeArticles ==
    /\ pc = "summarize_articles"
    /\ \E env \in [DOMAIN st.articles -> WfAttempts] :
          SummarizeWith(summarize_articles(st.articles,
                                           SummaryLengths(Len(st.articles))[1],
                                           SummaryLengths(Len(st.articles))[2],
                                           cache, env))
    /\ pc' = "create_digest"
    /\ UNCHANGED <<call, ret>>

DigestWith(r) ==
    SummarizerDone("create_digest", DigestState(st, r), r)

CreateDigest ==
    /\ pc = "create_digest"
    /\ \E attempts \in WfAttempts :
          DigestWith(create_digest_summary(st.summarized_articles,
                                           DigestLength(Len(st.summarized_articles)),
                                           cache, attempts))
    /\ pc' = "format_response"
    /\ UNCHANGED <<call, ret>>

FormatResponse ==
    /\ pc = "format_response"
    /\ st' = _format_response(st)
    /\ pc' = "END"
    /\ obs' = Ran("format_response", st, st', obs)
    /\ UNCHANGED <<cache, call, ret>>

HandleError ==
    /\ pc = "handle_error"
    /\ st' = _handle_error(st)
    /\ pc' = "END"
    /\ obs' = Ran("handle_error", st, st', obs)
    /\ UNCHANGED <<cache, call, ret>>

\* graph.invoke returned: process_topic builds its result
Finish ==
    /\ pc = "END"
    /\ ret' = Response(st, call.topic, call.language)
    /\ pc' = "done"
    /\ UNCHANGED <<st, cache, obs, call>>

Next ==
    \/ Start
    \/ ValidateInput
    \/ FetchNews
    \/ QualityCheck
    \/ EnhanceSearch
    \/ SummarizeArticles
    \/ CreateDigest
    \/ FormatResponse
    \/ HandleError
    \/ Finish

Spec ==
    WfInit /\ [][Next]_vars

----------------------------------------------------------------------------
(* _extract_trending_topics applied to the headlines of one provider answer *)

MaxHeadlines ==
    3

\* "Storm floods the coast", "storm STORM", "Markets rally", "rain", "Storm"
\* with five categories, and "Election biden's" with four; publishedAt is a
\* day number
Headlines ==
    {[title |-> <<"S", "t", "o", "r", "m", " ", "f", "l", "o", "o", "d", "s", " ", "t", "h", "e", " ", "c", "o", "a", "s", "t">>,
      url |-> "u1", publishedAt |-> 5],
     [title |-> <<"s", "t", "o", "r", "m", " ", "S", "T", "O", "R", "M">>,
      url |-> "u2", publishedAt |-> 4],
     [title |-> <<"M", "a", "r", "k", "e", "t", "s", " ", "r", "a", "l", "l", "y">>,
      url |-> "u3", publishedAt |-> 3],
     [title |-> <<"r", "a", "i", "n">>,
      url |-> "u4", publishedAt |-> 6],
     [title |-> <<"S", "t", "o", "r", "m">>,
      url |-> "u5", publishedAt |-> 2,
      categories |-> <<<<"W", "e", "a", "t", "h", "e", "r">>,
                       <<"C", "l", "i", "m", "a", "t", "e">>,
                       <<"E", "u", "r", "o", "p", "e">>,
                       <<"E", "n", "e", "r", "g", "y">>,
                       <<"A", "I">>>>],
     [title |-> <<"E", "l", "e", "c", "t", "i", "o", "n", " ", "b", "i", "d", "e", "n", "'", "s">>,
      url |-> "u6", publishedAt |-> 1,
      categories |-> <<<<"S", "p", "o", "r", "t", "s">>,
                       <<"H", "e", "a", "l", "t", "h">>,
                       <<"T", "r", "a", "v", "e", "l">>,
                       <<"s", "t", "o", "r", "m">>>>]}

TrendingInit ==
    /\ pc = "call"
    /\ st = NoState
    /\ cache = EmptyCache
    /\ obs = [calls |-> 0]
    /\ call \in {[fn |-> "_extract_trending_topics", articles |-> a] :
                    a \in UNION {[1..n -> Headlines] : n \in 0..MaxHeadlines}}
    /\ ret = NoRet

ExtractTrendingTopics ==
    /\ pc = "call"
    /\ ret' = [status |-> "returned", topics |-> _extract_trending_topics(call.articles)]
    /\ pc' = "returned"
    /\ obs' = [calls |-> obs.calls + 1]
    /\ UNCHANGED <<st, cache, call>>

SpecTrending ==
    TrendingInit /\ [][ExtractTrendingTopics]_vars

----------------------------------------------------------------------------
(* search_news and get_trending_topics called directly, again and again, on *)
(* one cache directory.  call.resp is what the provider answers when the   *)
(* call asks it.  Every entry has a deadline of its own, cache_ttl after   *)
(* cache.set stored it (half of it for the trending topics): obs.deadlines *)
(* lists the deadlines to come, the earliest first, each with its key and  *)
(* what ends with it: the entry stored then ("entry") or the cache_ttl     *)
(* that follow the latest search_news call with the key ("call").          *)
(* obs.prev holds, for each key whose latest call is less than cache_ttl   *)
(* old, the list that call returned.                                       *)

MaxCalls ==
    3

\* "AI" and "rain"
SearchTopics ==
    {<<"A", "I">>, <<"r", "a", "i", "n">>}

\* search_news takes any int
SearchMaxArticles ==
    {0 - 1, 2}

\* the provider's answers to search_news: a transport error, a JSON array,
\* "articles": null, and lists of none to three articles
SearchResponses ==
    {[kind |-> "transport"], [kind |-> "not_object"], [kind |-> "null_articles"]}
    \cup {ResponseOk(p) : p \in {<<>>, <<Item("short")>>, <<Item("nulldesc")>>,
                                  <<Item("marked"), Item("markdesc")>>,
                                  <<Item("rich"), Item("xok")>>,
                                  <<Item("short"), Item("xok"), Item("rich")>>}}

\* a transport error, "articles": null, no headline, one headline
TrendingResponses ==
    {[kind |-> "transport"], [kind |-> "null_articles"], ResponseOk(<<>>),
     ResponseOk(<<CHOOSE h \in Headlines : h.url = "u1">>)}

SearchInit ==
    /\ pc = "search"
    /\ st = NoState
    /\ cache = EmptyCache
    /\ obs = [calls |-> 0, prev |-> <<>>, deadlines |-> <<>>]
    /\ call = NoCall
    /\ ret = NoRet

\* search_news reached cache.set
SearchStored(r, resp) ==
    r.requested /\ ~r.raised /\ ~_make_request(resp).raised
    /\ _make_request(resp).status = "success"

\* f without key
Forget(f, key) ==
    IF DOMAIN f \ {key} = {} THEN <<>>
    ELSE [k \in DOMAIN f \ {key} |-> f[k]]

\* the deadlines without those of key for what is set again
Superseded(deadlines, key, what) ==
    SelectSeq([i \in DOMAIN deadlines |->
                  IF deadlines[i].key = key
                  THEN [deadlines[i] EXCEPT !.what = @ \ what]
                  ELSE deadlines[i]],
              LAMBDA d : d.what # {})

\* what a call returned, whether it asked the provider, and how it compares
\* with the previous call of the same key; cache.set(..., expire=cache_ttl)
\* gives the entry the latest deadline of all
SearchDone(key, r, what) ==
    /\ ret' = [status |-> "returned", ret |-> r.ret, raised |-> r.raised,
               requested |-> r.requested,
               repeated |-> key \in DOMAIN obs.prev,
               same |-> key \in DOMAIN obs.prev /\ ~r.raised /\ obs.prev[key] = r.ret]
    /\ cache' = r.cache
    /\ obs' = [calls |-> obs.calls + 1,
               prev |-> IF r.raised THEN obs.prev ELSE (key :> r.ret) @@ obs.prev,
               deadlines |-> IF what = {} THEN obs.deadlines
                             ELSE Append(Superseded(obs.deadlines, key, what),
                                         [key |-> key, what |-> what, half |-> FALSE])]

Search ==
    /\ pc = "search"
    /\ obs.calls < MaxCalls
    /\ \E topic \in SearchTopics, max_articles \in SearchMaxArticles,
          resp \in SearchResponses :
          LET r == search_news(topic, L_en, max_articles, cache, resp)
          IN  /\ call' = [fn |-> "search_news", topic |-> topic, language |-> L_en,
                          max_articles |-> max_articles, resp |-> resp]
              /\ SearchDone(SearchKey(topic, L_en, max_articles), r,
                            (IF SearchStored(r, resp) THEN {"entry"} ELSE {})
                            \cup (IF r.raised THEN {} ELSE {"call"}))
    /\ UNCHANGED <<pc, st>>

\* cache.set(..., expire=cache_ttl // 2): the deadline of the entry comes
\* after those of the trending topics stored before, and before or after that
\* of an entry that has more than half of its cache_ttl left
TrendingStored(deadlines, key, n) ==
    /\ n \in 0..Len(Superseded(deadlines, key, {"entry"}))
    /\ \A i \in DOMAIN Superseded(deadlines, key, {"entry"}) :
          Superseded(deadlines, key, {"entry"})[i].half => i <= n

GetTrendingTopics ==
    /\ pc = "search"
    /\ obs.calls < MaxCalls
    /\ \E resp \in TrendingResponses :
          LET r == get_trending_topics(L_en, cache, resp)
              rest == Superseded(obs.deadlines, TrendingKey(L_en), {"entry"})
          IN  /\ call' = [fn |-> "get_trending_topics", language |-> L_en, resp |-> resp]
              /\ ret' = [status |-> "returned", ret |-> r.ret, raised |-> r.raised,
                         requested |-> r.requested]
              /\ cache' = r.cache
              /\ IF SearchStored(r, resp)
                 THEN \E n \in 0..Len(rest) :
                         /\ TrendingStored(obs.deadlines, TrendingKey(L_en), n)
                         /\ obs' = [obs EXCEPT
                                       !.calls = @ + 1,
                                       !.deadlines =
                                           SubSeq(rest, 1, n)
                                           \o <<[key |-> TrendingKey(L_en),
                                                 what |-> {"entry"}, half |-> TRUE]>>
                                           \o SubSeq(rest, n + 1, Len(rest))]
                 ELSE obs' = [obs EXCEPT !.calls = @ + 1]
    /\ UNCHANGED <<pc, st>>

\* time passes the earliest deadline: diskcache no longer returns the entry
\* stored with it, and a call made then is no longer within cache_ttl of the
\* call that set it
Expire ==
    /\ pc = "search"
    /\ obs.deadlines # <<>>
    /\ cache' = IF "entry" \in Head(obs.deadlines).what
                THEN Forget(cache, Head(obs.deadlines).key)
                ELSE cache
    /\ obs' = [obs EXCEPT !.prev = IF "call" \in Head(obs.deadlines).what
                                   THEN Forget(@, Head(obs.deadlines).key)
                                   ELSE @,
                          !.deadlines = Tail(@)]
    /\ UNCHANGED <<pc, st, call, ret>>

SearchNext ==
    \/ Search
    \/ GetTrendingTopics
    \/ Expire

SpecSearch ==
    SearchInit /\ [][SearchNext]_vars

----------------------------------------------------------------------------
(* calculate_relevance_score applied to one article and one topic *)

\* 'Fog', described as 'rain', and 'brain', described as 'party': for the
\* topic "rain art" the one scores 0.2 + 0.5 + 0.2 + 0.0, the float below
\* 0.9, and the other 0.2 + 0.0 + 0.4 + 0.3, the float above it
Described(headline, words) ==
    [title |-> Text(headline, 0), description |-> Text(words, 0),
     text_content |-> EmptyText, url |-> ""]

\* articles as _process_articles and the extraction step hand them to the
\* filter, one without title, description or text_content, and the two above
ScoredArticles ==
    {EnhanceOne(ProcessOne(Item(k))) :
        k \in {"short", "rich", "nulldesc", "nulltitle", "xok", "xfail"}}
    \cup {[url |-> ""],
          Described(<<"F", "o", "g">>, <<"r", "a", "i", "n">>),
          Described(<<"b", "r", "a", "i", "n">>, <<"p", "a", "r", "t", "y">>)}

RainArt ==
    <<"r", "a", "i", "n", " ", "a", "r", "t">>

\* the topics of the workflow, and "the", "rains", "rain news", "AI rain",
\* "rain art", "cannot rain"
ScoredTopics ==
    Topics \cup {<<"t", "h", "e">>, <<"r", "a", "i", "n", "s">>,
                 <<"r", "a", "i", "n", " ", "n", "e", "w", "s">>,
                 <<"A", "I", " ", "r", "a", "i", "n">>, RainArt,
                 <<"c", "a", "n", "n", "o", "t", " ", "r", "a", "i", "n">>}

RelevanceInit ==
    /\ pc = "call"
    /\ st = NoState
    /\ cache = EmptyCache
    /\ obs = FreshObs
    /\ call \in {[fn |-> "calculate_relevance_score", article |-> a, topic |-> t] :
                    a \in ScoredArticles, t \in ScoredTopics}
    /\ ret = NoRet

ApplyRelevance ==
    /\ pc = "call"
    /\ ret' = calculate_relevance_score(call.article, call.topic)
    /\ pc' = "returned"
    /\ UNCHANGED <<st, cache, obs, call>>

RelevanceNext ==
    \/ ApplyRelevance

SpecRelevance ==
    RelevanceInit /\ [][RelevanceNext]_vars

----------------------------------------------------------------------------
(* app/tools/article_extractor.py: extract_article_content, step by step.  *)
(* The URL is a str; st holds the strategy in turn (k), its worker thread  *)
(* and what the worker returned; obs.attempted lists the strategies        *)
(* submitted to a pool.                                                     *)

blacklisted_patterns ==
    {<<"y", "a", "h", "o", "o", ".", "c", "o", "m", "/", "n", "e", "w", "s", "/", "v", "i", "d", "e", "o", "s", "/">>,
     <<"y", "o", "u", "t", "u", "b", "e", ".", "c", "o", "m">>,
     <<"t", "i", "k", "t", "o", "k", ".", "c", "o", "m">>,
     <<"i", "n", "s", "t", "a", "g", "r", "a", "m", ".", "c", "o", "m">>,
     <<"f", "a", "c", "e", "b", "o", "o", "k", ".", "c", "o", "m">>,
     <<"t", "w", "i", "t", "t", "e", "r", ".", "c", "o", "m">>,
     <<"x", ".", "c", "o", "m">>}

\* s.startswith(p)
startswith(s, p) ==
    Len(s) >= Len(p) /\ SubSeq(s, 1, Len(p)) = p

\* the error of the two checks made before any strategy, "" when the URL
\* passes both
UrlRejected(url) ==
    IF url = <<>> \/ ~startswith(url, <<"h", "t", "t", "p">>)
    THEN "Invalid URL"
    ELSE IF \E pattern \in blacklisted_patterns : IsSubstr(pattern, lower(url))
    THEN "URL blacklisted for extraction"
    ELSE ""

methods_mut_swapped ==
    <<"newspaper", "trafilatura", "beautifulsoup">>

methods ==
    <<"trafilatura", "newspaper", "beautifulsoup">>

\* re.sub(r'\s+', ' ', content) on the characters of a text
RECURSIVE Collapse(_)
Collapse(s) ==
    IF Len(s) < 2 THEN s
    ELSE IF s[1] = " " /\ s[2] = " " THEN Collapse(Tail(s))
    ELSE <<s[1]>> \o Collapse(Tail(s))

ExtractResult(success, text, method, error) ==
    [raised |-> FALSE, success |-> success, text |-> text, method |-> method,
     error |-> error]

\* re.sub(r'\s+', ' ', content).strip() of a text: the filler is not
\* whitespace, so a blank before it stays
CollapseStrip(page) ==
    IF page.pad > 0
    THEN Text(LStrip(Collapse(page.txt)), page.pad)
    ELSE Text(strip(Collapse(page.txt)), 0)

\* the characters of a str as one string
RECURSIVE Str(_)
Str(s) ==
    IF s = <<>> THEN "" ELSE Head(s) \o Str(Tail(s))

\* str(e) of the HTTPError that raise_for_status raises on a 404
HTTPError(url) ==
    "404 Client Error: Not Found for url: " \o Str(url)

\* what strategy k returns when the site yields page to it, None standing for
\* an answer of status 404: the first strategy reports the status, the other
\* two the exception they caught (newspaper's message without the quotes it
\* puts around download()).  The first two strategies want more than 50
\* characters once stripped, the third more than 100 once the whitespace is
\* collapsed
StrategyResult(k, page, url) ==
    IF page = None
    THEN ExtractResult(FALSE, EmptyText, "",
                       CASE k = 1 -> "HTTP 404"
                         [] k = 2 -> "Article download() failed with "
                                     \o HTTPError(url) \o " on URL " \o Str(url)
                         [] OTHER -> HTTPError(url))
    ELSE IF k = 3
    THEN IF Truthy(CollapseStrip(page)) /\ TLen(CollapseStrip(page)) > 100
         THEN ExtractResult(TRUE, CollapseStrip(page), methods[k], "")
         ELSE ExtractResult(FALSE, EmptyText, "", "No content found")
    ELSE IF Truthy(page) /\ TStripLen(page) > 50
    THEN ExtractResult(TRUE, page, methods[k], "")
    ELSE ExtractResult(FALSE, EmptyText, "", "No content found")

\* the pages of the model: a 404, 304 characters, 84 characters, 60 blanks
\* before 54 characters, and 101 characters with one blank and with two
\* blanks inside
Pages ==
    {None, Text(<<"r", "a", "i", "n">>, 300), Text(<<"r", "a", "i", "n">>, 80),
     Text([i \in 1..60 |-> " "] \o <<"r", "a", "i", "n">>, 50),
     Text(<<"a", " ">>, 99), Text(<<"a", " ", " ">>, 98)}

\* "", and "ftp://a.co/n", "httpx://a.co/n", "http://a.co/n", "https://x.com/n", "https://linux.com/n"
ExtractUrls ==
    {<<>>,
     <<"f", "t", "p", ":", "/", "/", "a", ".", "c", "o", "/", "n">>,
     <<"h", "t", "t", "p", "x", ":", "/", "/", "a", ".", "c", "o", "/", "n">>,
     <<"h", "t", "t", "p", ":", "/", "/", "a", ".", "c", "o", "/", "n">>,
     <<"h", "t", "t", "p", "s", ":", "/", "/", "x", ".", "c", "o", "m", "/", "n">>,
     <<"h", "t", "t", "p", "s", ":", "/", "/", "l", "i", "n", "u", "x", ".", "c", "o", "m", "/", "n">>}

ExtractInit ==
    /\ pc = "call"
    /\ st = [k |-> 0, worker |-> "none", out |-> [raised |-> FALSE]]
    /\ cache = EmptyCache
    /\ obs = [attempted |-> <<>>, timeouts |-> 0]
    /\ call \in {[fn |-> "extract_article_content", url |-> u] : u \in ExtractUrls}
    /\ ret = NoRet

\* the loop turns to strategy k: executor.submit(method, url) starts its
\* worker, and past the last strategy the chain returns its failure
TryStrategy(k) ==
    IF k > Len(methods)
    THEN /\ ret' = ExtractResult(FALSE, EmptyText, "",
                                 "All extraction methods failed or timed out")
         /\ pc' = "done"
         /\ st' = [st EXCEPT !.worker = "none"]
         /\ UNCHANGED obs
    ELSE /\ st' = [k |-> k, worker |-> "running", out |-> [raised |-> FALSE]]
         /\ obs' = [obs EXCEPT !.attempted = Append(obs.attempted, methods[k])]
         /\ pc' = "result"
         /\ UNCHANGED ret

\* the two checks of the URL, then the first strategy
ExtractEnter ==
    /\ pc = "call"
    /\ IF UrlRejected(call.url) # ""
       THEN /\ ret' = ExtractResult(FALSE, EmptyText, "", UrlRejected(call.url))
            /\ pc' = "done"
            /\ UNCHANGED <<st, obs>>
       ELSE TryStrategy(1)
    /\ UNCHANGED <<cache, call>>

\* the worker thread comes to its end: the strategy returns, or raises
WorkerDone ==
    /\ st.worker = "running"
    /\ \E out \in {StrategyResult(st.k, page, call.url) : page \in Pages} \cup {[raised |-> TRUE]} :
          st' = [st EXCEPT !.worker = "finished", !.out = out]
    /\ UNCHANGED <<pc, cache, obs, call, ret>>

\* future.result(timeout) hands over what the worker returned: the chain
\* returns it when it is a success with more than 100 characters once
\* stripped, else it goes on; the pool's exit finds the worker finished
FutureResult ==
    /\ pc = "result"
    /\ st.worker = "finished"
    /\ IF ~st.out.raised /\ st.out.success /\ Truthy(st.out.text)
          /\ TStripLen(st.out.text) > 100
       THEN /\ ret' = st.out
            /\ pc' = "done"
            /\ UNCHANGED <<st, obs>>
       ELSE TryStrategy(st.k + 1)
    /\ UNCHANGED <<cache, call>>

\* future.result(timeout) raises TimeoutError while the worker still runs:
\* "continue" leaves the with block of the pool
FutureTimeout ==
    /\ pc = "result"
    /\ st.worker = "running"
    /\ pc' = "exit"
    /\ obs' = [obs EXCEPT !.timeouts = obs.timeouts + 1]
    /\ UNCHANGED <<st, cache, call, ret>>

\* ThreadPoolExecutor.__exit__ is shutdown(wait=True): it returns once the
\* worker has finished, and the loop goes on
PoolExit ==
    /\ pc = "exit"
    /\ st.worker = "finished"
    /\ TryStrategy(st.k + 1)
    /\ UNCHANGED <<cache, call>>

SpecExtract ==
    ExtractInit
    /\ [][ExtractEnter \/ WorkerDone \/ FutureResult \/ FutureTimeout \/ PoolExit]_vars

----------------------------------------------------------------------------
(* summarize_text and create_digest_summary called directly, again and     *)
(* again, on one cache directory.  call.answers is what the model does at  *)
(* each invocation; obs holds what the latest call did.  Every entry has   *)
(* a deadline of its own, cache_ttl after cache.set stored it:             *)
(* obs.deadlines lists the keys of the entries in the order they were      *)
(* stored, and obs.produced holds, by its arguments, the result of every   *)
(* call that generated a summary whose entry has not expired.              *)

MaxSumCalls ==
    2

\* what one invocation of the model does: it returns, or raises an exception
\* with this str(e); oom says whether the exception is an out-of-memory or
\* accelerator error
ModelAnswer(ok, oom, msg) ==
    [ok |-> ok, oom |-> oom, msg |-> msg]

\* how the except clause of summarize_text sorts str(e).lower()
Classify(answer) ==
    IF answer.ok THEN "ok"
    ELSE IF IsSubstr(<<"a", "l", "r", "e", "a", "d", "y", " ", "b", "o", "r", "r", "o", "w", "e", "d">>, lower(answer.msg))
    THEN "busy"
    ELSE IF \/ IsSubstr(<<"o", "u", "t", " ", "o", "f", " ", "m", "e", "m", "o", "r", "y">>, lower(answer.msg))
            \/ IsSubstr(<<"c", "u", "d", "a">>, lower(answer.msg))
    THEN "oom"
    ELSE "err"

\* the model returns; RuntimeError("Already borrowed"); RuntimeError("CUDA
\* out of memory"); MemoryError(); ValueError("boom")
ModelAnswers ==
    LET ok == ModelAnswer(TRUE, FALSE, <<>>)
        busy == ModelAnswer(FALSE, FALSE, <<"A", "l", "r", "e", "a", "d", "y", " ", "b", "o", "r", "r", "o", "w", "e", "d">>)
        cuda == ModelAnswer(FALSE, TRUE, <<"C", "U", "D", "A", " ", "o", "u", "t", " ", "o", "f", " ", "m", "e", "m", "o", "r", "y">>)
        memory == ModelAnswer(FALSE, TRUE, <<>>)
        boom == ModelAnswer(FALSE, FALSE, <<"b", "o", "o", "m">>)
    IN  {<<ok>>, <<busy, ok>>, <<boom, busy, boom, ok>>, <<cuda, ok>>,
         <<busy, cuda, ok>>, <<memory, ok>>}

\* "", 44 characters, 20 blanks before 44 characters, 64 characters, and 66
\* characters
SumTexts ==
    {<<>>, <<Text(<<"r", "a", "i", "n">>, 40)>>,
     <<Text([i \in 1..20 |-> " "] \o <<"r", "a", "i", "n">>, 40)>>,
     <<Text(<<"r", "a", "i", "n">>, 60)>>,
     <<Text(<<"r", "a", "i", "n", "_", "1">>, 60)>>}

\* lists of articles: 44 characters with its placeholder summary, exactly 100
\* characters, the paywall message in 128 characters, no text_content but a
\* long description, 254 characters, and an empty body with its placeholder
\* summary
DigestInputs ==
    LET short == [text_content |-> Text(<<"r", "a", "i", "n">>, 40),
                  summary |-> NotAvailable]
        hundred == [text_content |-> Text(<<"r", "a", "i", "n">>, 96)]
        paywall == [text_content |-> Text(Paywall, 100)]
        bare == [description |-> Text(<<"r", "a", "i", "n">>, 200)]
        long == [text_content |-> Text(<<"r", "a", "i", "n">>, 250)]
        empty == [text_content |-> EmptyText, summary |-> NotAvailable]
    IN  {<<>>, <<short>>, <<hundred, paywall>>, <<bare>>, <<long>>, <<short, long>>,
         <<long, empty>>}

SumInit ==
    /\ pc = "summarizer"
    /\ st = NoState
    /\ cache = EmptyCache
    /\ obs = [calls |-> 0, model_calls |-> 0, wrote |-> FALSE, repeated |-> FALSE,
              earlier |-> <<>>, produced |-> <<>>, deadlines |-> <<>>]
    /\ call = NoCall
    /\ ret = NoRet

\* what a call returned, how often it invoked the model and whether it wrote
\* the cache; args is <<>> for a digest, keys are the keys the call may store,
\* in the order of its cache.set calls: a key is stored after a miss only
SumDone(args, r, keys) ==
    /\ ret' = r.ret
    /\ cache' = r.cache
    /\ obs' = [calls |-> obs.calls + 1,
               model_calls |-> r.calls,
               wrote |-> r.cache # cache,
               repeated |-> args \in DOMAIN obs.produced,
               earlier |-> IF args \in DOMAIN obs.produced
                           THEN <<obs.produced[args]>> ELSE <<>>,
               produced |-> IF args # <<>> /\ r.ret.summary_length > 0 /\ ~r.ret.cached
                            THEN (args :> r.ret) @@ obs.produced
                            ELSE obs.produced,
               deadlines |-> obs.deadlines
                             \o SelectSeq(keys, LAMBDA k : k \in DOMAIN r.cache
                                                          /\ k \notin DOMAIN cache)]

SummarizeText ==
    /\ pc = "summarizer"
    /\ obs.calls < MaxSumCalls
    /\ \E text \in SumTexts, max_length \in {150, 15}, min_length \in {50, 5},
          answers \in ModelAnswers :
          /\ call' = [fn |-> "summarize_text", text |-> text, max_length |-> max_length,
                      min_length |-> min_length, answers |-> answers]
          /\ SumDone(<<text, max_length, min_length>>,
                     summarize_text(text, max_length, min_length, cache,
                                    [i \in DOMAIN answers |-> Classify(answers[i])]),
                     <<_generate_cache_key(text, max_length, min_length)>>)
    /\ UNCHANGED <<pc, st>>

CreateDigestSummary ==
    /\ pc = "summarizer"
    /\ obs.calls < MaxSumCalls
    /\ \E articles \in DigestInputs, answers \in ModelAnswers :
          /\ call' = [fn |-> "create_digest_summary", articles |-> articles,
                      max_length |-> 200, answers |-> answers]
          /\ SumDone(<<>>, create_digest_summary(
                               articles, 200, cache,
                               [i \in DOMAIN answers |-> Classify(answers[i])]),
                     <<_generate_cache_key(Combined(articles), 200, 30),
                       _generate_cache_key(
                           <<Text(<<"d", "i", "g", "e", "s", "t", "_">>, 0)>>
                           \o Combined(articles), 200, 30)>>)
    /\ UNCHANGED <<pc, st>>

\* time passes the earliest deadline: diskcache no longer returns the entry
\* stored first
SumExpire ==
    /\ pc = "summarizer"
    /\ obs.deadlines # <<>>
    /\ cache' = Forget(cache, Head(obs.deadlines))
    /\ obs' = [obs EXCEPT
                  !.produced =
                      IF \A args \in DOMAIN @ :
                            _generate_cache_key(args[1], args[2], args[3])
                                = Head(obs.deadlines)
                      THEN <<>>
                      ELSE [args \in {a \in DOMAIN @ :
                                         _generate_cache_key(a[1], a[2], a[3])
                                             # Head(obs.deadlines)} |-> @[args]],
                  !.deadlines = Tail(@)]
    /\ UNCHANGED <<pc, st, call, ret>>

SpecSummarize ==
    SumInit /\ [][SummarizeText \/ CreateDigestSummary \/ SumExpire]_vars

----------------------------------------------------------------------------
(* summarize_text called from several threads on one TextSummarizer (a     *)
(* digest reaches the model through summarize_text too).  st.lock is the   *)
(* holder of _model_lock, 0 when it is free; st.th[t] is where thread t    *)
(* stands, which attempt of its retry loop it is in and the arguments of   *)
(* its call, <<text, max_length, min_length>>.  A thread stands at         *)
(* "preprocess" from the beginning of an attempt until _preprocess_text    *)
(* has returned or raised, at "lock" before the with block, at "model"     *)
(* inside self.summarizer(...), at "cache.set" between the end of the      *)
(* with block and self.cache.set, at "sleep" inside time.sleep, and at     *)
(* "failed" between a failure that ends the loop and the return of the     *)
(* placeholder: the other threads run while it stands there.               *)
(* obs.in_model is the set of threads inside self.summarizer(...),         *)
(* obs.deadlines the keys of the cache in the order their entries expire;  *)
(* ret is what the call that returned last returned.  The tokenizer is     *)
(* the one the pipeline uses, and _preprocess_text calls it outside the    *)
(* lock: while another thread uses it the call may raise                   *)
(* RuntimeError("Already borrowed").                                       *)

MaxThreads ==
    3

\* the texts of the calls: 44 characters, too few for a summary, and 64
LockTexts ==
    {<<Text(<<"r", "a", "i", "n">>, 40)>>, <<Text(<<"r", "a", "i", "n">>, 60)>>}

CanAcquire_mut_open(lock) ==
    TRUE

\* threading.Lock: acquired only while no thread holds it
CanAcquire(lock) ==
    lock = 0

\* a thread that is not inside summarize_text
Idle ==
    [at |-> "idle", attempt |-> 0, args |-> <<>>]

LockInit ==
    /\ pc = "threads"
    /\ st = [lock |-> 0, th |-> [t \in 1..MaxThreads |-> Idle]]
    /\ cache = EmptyCache
    /\ obs = [in_model |-> {}, deadlines |-> <<>>]
    /\ call = NoCall
    /\ ret = NoRet

\* a thread enters summarize_text: a text too short returns the placeholder
\* and a text in the cache returns the cached result, both without the lock;
\* any other text begins the first attempt, which calls _preprocess_text
EnterSummarize(t) ==
    /\ st.th[t].at = "idle"
    /\ \E text \in LockTexts, max_length \in {150}, min_length \in {50} :
          LET cache_key == _generate_cache_key(text, max_length, min_length)
              cached_result == CacheGet(cache, cache_key)
          IN  IF DocLen(text) = 0 \/ DocStripLen(text) < 50
              THEN /\ ret' = SummaryResult(NotAvailable, text, 0, FALSE)
                   /\ UNCHANGED st
              ELSE IF cached_result # <<>>
              THEN /\ ret' = [cached_result[1] EXCEPT !.cached = TRUE]
                   /\ UNCHANGED st
              ELSE /\ st' = [st EXCEPT !.th[t] =
                                [at |-> "preprocess", attempt |-> 1,
                                 args |-> <<text, max_length, min_length>>]]
                   /\ UNCHANGED ret
    /\ UNCHANGED <<pc, cache, obs, call>>

\* another thread is inside the tokenizer: in _preprocess_text, or in the
\* pipeline
TokenizerInUse(t) ==
    \E u \in 1..MaxThreads \ {t} : st.th[u].at \in {"preprocess", "model"}

\* _preprocess_text returns and the thread comes to "with self._model_lock:",
\* or the tokenizer raises "Already borrowed" and the except clause calls
\* time.sleep
PreprocessText(t) ==
    /\ st.th[t].at = "preprocess"
    /\ \E borrowed \in {b \in BOOLEAN : b => TokenizerInUse(t)} :
          st' = [st EXCEPT !.th[t].at = IF borrowed THEN "sleep" ELSE "lock"]
    /\ UNCHANGED <<pc, cache, obs, call, ret>>

\* the thread acquires the lock and invokes the model
AcquireLock(t) ==
    /\ st.th[t].at = "lock"
    /\ CanAcquire(st.lock)
    /\ st' = [st EXCEPT !.lock = t, !.th[t].at = "model"]
    /\ obs' = [obs EXCEPT !.in_model = @ \cup {t}]
    /\ UNCHANGED <<pc, cache, call, ret>>

\* the model returns or raises, and the with block releases the lock either
\* way.  After a summary the thread goes on to self.cache.set; after
\* "Already borrowed" the except clause calls time.sleep; after an
\* out-of-memory error it breaks the loop; after another error it begins the
\* next attempt, and the last attempt ends the loop
ModelReturns(t) ==
    /\ st.th[t].at = "model"
    /\ \E outcome \in {"ok", "busy", "oom", "err"} :
          st' = [st EXCEPT
                    !.lock = 0,
                    !.th[t] =
                        IF outcome = "ok" THEN [@ EXCEPT !.at = "cache.set"]
                        ELSE IF outcome = "busy" THEN [@ EXCEPT !.at = "sleep"]
                        ELSE IF outcome = "err" /\ @.attempt < max_retries
                        THEN [@ EXCEPT !.at = "preprocess", !.attempt = @ + 1]
                        ELSE [@ EXCEPT !.at = "failed"]]
    /\ obs' = [obs EXCEPT !.in_model = @ \ {t}]
    /\ UNCHANGED <<pc, cache, call, ret>>

\* outside the lock the thread stores its result in the cache, whatever
\* another thread stored under the key meanwhile, and returns it
StoreResult(t) ==
    /\ st.th[t].at = "cache.set"
    /\ LET text == st.th[t].args[1]
           max_length == st.th[t].args[2]
           min_length == st.th[t].args[3]
           cache_key == _generate_cache_key(text, max_length, min_length)
           summary == Generate(text, max_length)
           result == SummaryResult(summary, text, TLen(summary), FALSE)
       IN  /\ cache' = CacheSet(cache, cache_key, result)
           /\ obs' = [obs EXCEPT !.deadlines =
                          SelectSeq(@, LAMBDA k : k # cache_key) \o <<cache_key>>]
           /\ ret' = result
    /\ st' = [st EXCEPT !.th[t] = Idle]
    /\ UNCHANGED <<pc, call>>

\* time.sleep returns and the loop goes on: to the next attempt, or past the
\* last one to the return of the placeholder for a failure
SleepReturns(t) ==
    /\ st.th[t].at = "sleep"
    /\ IF st.th[t].attempt < max_retries
       THEN /\ st' = [st EXCEPT !.th[t] = [@ EXCEPT !.at = "preprocess",
                                                    !.attempt = @ + 1]]
            /\ UNCHANGED ret
       ELSE /\ st' = [st EXCEPT !.th[t] = Idle]
            /\ ret' = SummaryResult(UnableToGenerate, st.th[t].args[1], 0, FALSE)
    /\ UNCHANGED <<pc, cache, obs, call>>

\* the loop has ended after a failure in the model: the call returns the
\* placeholder
ReturnFailure(t) ==
    /\ st.th[t].at = "failed"
    /\ st' = [st EXCEPT !.th[t] = Idle]
    /\ ret' = SummaryResult(UnableToGenerate, st.th[t].args[1], 0, FALSE)
    /\ UNCHANGED <<pc, cache, obs, call>>

\* time passes the earliest deadline: diskcache no longer returns the entry
\* that expires first
LockExpire ==
    /\ obs.deadlines # <<>>
    /\ cache' = Forget(cache, Head(obs.deadlines))
    /\ obs' = [obs EXCEPT !.deadlines = Tail(@)]
    /\ UNCHANGED <<pc, st, call, ret>>

SpecLock ==
    LockInit
    /\ [][LockExpire
          \/ \E t \in 1..MaxThreads :
                EnterSummarize(t) \/ PreprocessText(t) \/ AcquireLock(t)
                \/ ModelReturns(t) \/ StoreResult(t) \/ SleepReturns(t)
                \/ ReturnFailure(t)]_vars

----------------------------------------------------------------------------
(* The two stages that put an extracted text into an article, applied to   *)
(* one article: _enhance_articles_with_extraction of the retrieval service *)
(* and extract_one of extract_multiple_articles.                           *)

\* the copy of the article that extract_one returns
extract_one(article) ==
    IF Get(article, "url", "") = "" THEN article
    ELSE IF extract_article_content(article.url).success
    THEN [extracted_content |-> extract_article_content(article.url).text,
          extraction_method |-> extract_article_content(article.url).method,
          extraction_success |-> TRUE,
          text_content |->
              IF ~Truthy(Get(article, "text_content", None))
                 \/ HasPaywall(Get(article, "text_content", EmptyText))
              THEN extract_article_content(article.url).text
              ELSE article.text_content] @@ article
    ELSE [extraction_success |-> FALSE,
          extraction_error |-> extract_article_content(article.url).error] @@ article

\* bodies of 0, 64, 200, 400 and 600 characters and a paywall message of 128
StageTexts ==
    {EmptyText, Text(<<"r", "a", "i", "n">>, 60), Text(<<"r", "a", "i", "n">>, 196),
     Text(<<"r", "a", "i", "n">>, 396), Text(<<"r", "a", "i", "n">>, 596),
     Text(Paywall, 100)}

\* no URL, pages of 304, 60 (too few for the loop over the strategies) and 328
\* characters (the last a paywall message), a page no strategy can read, a
\* problematic domain and a blocked domain
StageUrls ==
    {"", "http://news.site/ok", "http://news.site/brief", "http://news.site/wall",
     "http://news.site/fail", "https://news.yahoo.com/story",
     "https://twitter.com/post"}

StageInit ==
    /\ pc = "call"
    /\ st = NoState
    /\ cache = EmptyCache
    /\ obs = FreshObs
    /\ call \in {[fn |-> f,
                  article |-> [title |-> Text(<<"A", "I">>, 0), text_content |-> t,
                               url |-> u, source |-> "BBC"]] :
                    f \in {"_enhance_articles_with_extraction", "extract_one"},
                    t \in StageTexts, u \in StageUrls}
    /\ ret = NoRet

RetrievalStage ==
    /\ pc = "call"
    /\ call.fn = "_enhance_articles_with_extraction"
    /\ ret' = [status |-> "returned",
               article |-> _enhance_articles_with_extraction(<<call.article>>)[1]]
    /\ pc' = "returned"
    /\ UNCHANGED <<st, cache, obs, call>>

BatchStage ==
    /\ pc = "call"
    /\ call.fn = "extract_one"
    /\ ret' = [status |-> "returned", article |-> extract_one(call.article)]
    /\ pc' = "returned"
    /\ UNCHANGED <<st, cache, obs, call>>

SpecStage ==
    StageInit /\ [][RetrievalStage \/ BatchStage]_vars

----------------------------------------------------------------------------
(* _quality_check and _should_enhance_search applied to one workflow state, *)
(* any state an AgentState can hold.  max_articles is not 0: search_news    *)
(* returns no article then, and _quality_check divides by it only when      *)
(* there are articles.                                                      *)

\* an article of the state: its body length and its source
Scored(pad, source) ==
    [title |-> Text(<<"R", "a", "i", "n">>, 0),
     text_content |-> Text(<<"r", "a", "i", "n">>, pad), source |-> source]

\* no article; one of 44, 84, 154 and 204 characters; one without body or
\* source; three of 254 from three sources, from two and from one; a mix
QualityArticles ==
    {<<>>, <<Scored(40, "BBC")>>, <<Scored(80, "BBC")>>, <<Scored(150, "BBC")>>,
     <<Scored(200, "BBC")>>, <<[title |-> Text(<<"R", "a", "i", "n">>, 0)]>>,
     <<Scored(250, "BBC"), Scored(250, "CNN"), Scored(250, "AP")>>,
     <<Scored(250, "BBC"), Scored(250, "CNN"), Scored(250, "CNN")>>,
     <<Scored(250, "BBC"), Scored(250, "BBC"), Scored(250, "BBC")>>,
     <<Scored(40, "BBC"), Scored(96, "BBC"), Scored(196, "CNN")>>}

QualityInit ==
    /\ pc = "state"
    /\ st \in {[InitialState(<<"r", "a", "i", "n">>, L_en, m) EXCEPT
                   !.articles = a, !.error = e, !.quality_score = q,
                   !.retry_count = k] :
                 m \in {0 - 1, 1, 3, 5}, a \in QualityArticles,
                 e \in {NoError, NoArticlesError},
                 q \in {Zero, Float(49, 100), Float(1, 2), Float(13, 15)},
                 k \in 0..3}
    /\ cache = EmptyCache
    /\ obs = FreshObs
    /\ call = NoCall
    /\ ret = NoRet

\* the node quality_check and the conditional edge that follows it
ApplyQualityCheck ==
    /\ pc = "state"
    /\ ret' = [status |-> "checked", state |-> _quality_check(st).state,
               route |-> _should_enhance_search(_quality_check(st).state)]
    /\ pc' = "checked"
    /\ UNCHANGED <<st, cache, obs, call>>

\* _should_enhance_search on the state as it is
ApplyRouting ==
    /\ pc = "state"
    /\ ret' = [status |-> "routed", state |-> st, route |-> _should_enhance_search(st)]
    /\ pc' = "routed"
    /\ UNCHANGED <<st, cache, obs, call>>

SpecQuality ==
    QualityInit /\ [][ApplyQualityCheck \/ ApplyRouting]_vars

----------------------------------------------------------------------------
(* The workflow when every node that is entered returns: graph.invoke runs  *)
(* the node pc names, and process_topic builds its result after the graph.  *)

\* the node that pc names returns and control moves on: to the next node of
\* the graph, to its end, or back to process_topic
NodeReturns ==
    /\ pc \notin {"idle", "done"}
    /\ pc' \in {"fetch_news", "quality_check", "enhance_search", "summarize_articles",
               "create_digest", "format_response", "handle_error", "END", "done"}
    /\ pc' # pc

FairSpec ==
    Spec /\ WF_pc(NodeReturns)

----------------------------------------------------------------------------
(* filter_relevant_articles applied to one list of articles, one topic and *)
(* one threshold                                                            *)

MaxFiltered ==
    2

FilterInit ==
    /\ pc = "call"
    /\ st = NoState
    /\ cache = EmptyCache
    /\ obs = FreshObs
    /\ call \in {[fn |-> "filter_relevant_articles", articles |-> a, topic |-> t,
                  min_relevance |-> m] :
                    a \in UNION {[1..n -> ScoredArticles] : n \in 0..MaxFiltered},
                    t \in {<<"A", "I">>, <<"r", "a", "i", "n">>, <<"t", "h", "e">>, RainArt},
                    m \in {Float(1, 10), Float(4, 10), Float(9, 10), One}}
    /\ ret = NoRet

ApplyFilter ==
    /\ pc = "call"
    /\ ret' = [status |-> "returned",
               raised |-> filter_relevant_articles(call.articles, call.topic,
                                                   call.min_relevance).raised,
               ret |-> filter_relevant_articles(call.articles, call.topic,
                                                call.min_relevance).ret]
    /\ pc' = "returned"
    /\ UNCHANGED <<st, cache, obs, call>>

SpecFilter ==
    FilterInit /\ [][ApplyFilter]_vars

----------------------------------------------------------------------------
(* extract_multiple_articles: one worker per article, the results taken in *)
(* the order in which the workers finish, under one aggregate timeout.     *)

MaxBatch ==
    3

\* an article without URL, one whose page is read, one whose page no
\* strategy can read, and the output of an earlier batch (it carries its
\* extracted content) whose page can no longer be read
BatchArticles ==
    {[title |-> Text(<<"A", "I">>, 0), text_content |-> Text(<<"r", "a", "i", "n">>, 60),
      url |-> u, source |-> "BBC"] :
        u \in {"", "http://news.site/ok", "http://news.site/fail"}}
    \cup {[title |-> Text(<<"A", "I">>, 0), text_content |-> Text(<<"r", "a", "i", "n">>, 60),
           url |-> "http://news.site/fail", source |-> "BBC",
           extracted_content |-> Text(<<"r", "a", "i", "n">>, 300),
           extraction_method |-> "trafilatura", extraction_success |-> TRUE]}

\* result.get('extraction_success', True) or result.get('extracted_content')
Keeps_mut_all(result) ==
    TRUE

Keeps(result) ==
    Get(result, "extraction_success", TRUE)
    \/ Truthy(Get(result, "extracted_content", None))

BatchInit ==
    /\ pc = "call"
    /\ st = NoState
    /\ cache = EmptyCache
    /\ obs = [pending |-> {}, kept |-> <<>>, enhanced_articles |-> <<>>, timed_out |-> FALSE]
    /\ call \in {[fn |-> "extract_multiple_articles", articles |-> a] :
                    a \in UNION {[1..n -> BatchArticles] : n \in 0..MaxBatch}}
    /\ ret = NoRet

\* the pool is entered and every article is submitted
BatchSubmit ==
    /\ pc = "call"
    /\ obs' = [obs EXCEPT !.pending = DOMAIN call.articles]
    /\ pc' = "as_completed"
    /\ UNCHANGED <<st, cache, call, ret>>

\* as_completed yields the future of article i, which has finished: its
\* result is appended or skipped
BatchCompleted(i) ==
    /\ pc = "as_completed"
    /\ i \in obs.pending
    /\ obs' = IF Keeps(extract_one(call.articles[i]))
              THEN [obs EXCEPT !.pending = @ \ {i},
                               !.kept = Append(@, i),
                               !.enhanced_articles = Append(@, extract_one(call.articles[i]))]
              ELSE [obs EXCEPT !.pending = @ \ {i}]
    /\ UNCHANGED <<pc, st, cache, call, ret>>

\* every future was yielded: the pool is left and the list returned
BatchReturn ==
    /\ pc = "as_completed"
    /\ obs.pending = {}
    /\ ret' = [status |-> "returned", articles |-> obs.enhanced_articles]
    /\ pc' = "returned"
    /\ UNCHANGED <<st, cache, obs, call>>

\* the aggregate timeout elapses with futures unfinished: as_completed
\* raises TimeoutError in the for statement, outside the try of its body,
\* and the exception leaves the with block of the pool
BatchTimeout ==
    /\ pc = "as_completed"
    /\ obs.pending # {}
    /\ obs' = [obs EXCEPT !.timed_out = TRUE]
    /\ pc' = "exit"
    /\ UNCHANGED <<st, cache, call, ret>>

\* a worker still running at the exit of the pool comes to its end; nothing
\* takes its result
BatchWorkerEnds(i) ==
    /\ pc = "exit"
    /\ i \in obs.pending
    /\ obs' = [obs EXCEPT !.pending = @ \ {i}]
    /\ UNCHANGED <<pc, st, cache, call, ret>>

\* ThreadPoolExecutor.__exit__ has joined the workers: the TimeoutError
\* reaches the caller
BatchRaise ==
    /\ pc = "exit"
    /\ obs.pending = {}
    /\ ret' = [status |-> "raised", error |-> "TimeoutError"]
    /\ pc' = "raised"
    /\ UNCHANGED <<st, cache, obs, call>>

BatchNext ==
    \/ BatchSubmit
    \/ \E i \in 1..MaxBatch : BatchCompleted(i)
    \/ BatchReturn
    \/ BatchTimeout
    \/ \E i \in 1..MaxBatch : BatchWorkerEnds(i)
    \/ BatchRaise

SpecBatch ==
    BatchInit /\ [][BatchNext]_vars

----------------------------------------------------------------------------
(* Two runs that call search_news, or summarize_text, with the same        *)
(* arguments at the same time.  Each call reads the cache, then asks the   *)
(* provider or the model, then writes the cache; nothing holds the other   *)
(* run off between the read and the write.                                 *)

MaxRuns ==
    2

RaceAttempts ==
    {<<"ok">>, <<"err", "ok">>, <<"err", "err", "err">>}

RaceResponses ==
    {[kind |-> "transport"], ResponseOk(<<>>), ResponseOk(<<Item("rich")>>),
     ResponseOk(<<Item("rich"), Item("xok")>>)}

RaceInit ==
    /\ pc = "runs"
    /\ st = [th |-> [t \in 1..MaxRuns |-> [at |-> "idle"]]]
    /\ cache = EmptyCache
    /\ obs = [computed |-> {}, sets |-> 0]
    /\ call \in {[fn |-> "search_news", topic |-> topic, language |-> L_en,
                  max_articles |-> 2,
                  key |-> SearchKey(topic, L_en, 2)] : topic \in SearchTopics}
            \cup {[fn |-> "summarize_text", text |-> text, max_length |-> 150,
                   min_length |-> 50,
                   key |-> _generate_cache_key(text, 150, 50)] :
                     text \in {d \in SumTexts : DocStripLen(d) >= 50}}
    /\ ret = NoRet

\* "if cached_result:" of the function the runs call
RaceHit(cached_result) ==
    IF call.fn = "search_news" THEN CacheHit(cached_result) ELSE cached_result # <<>>

\* cached_result = self.cache.get(cache_key): a hit is returned, a miss
\* goes on to the provider or the model
RaceLookup(t) ==
    /\ st.th[t].at = "idle"
    /\ st' = [st EXCEPT !.th[t] =
                 IF RaceHit(CacheGet(cache, call.key))
                 THEN [at |-> "done", hit |-> TRUE]
                 ELSE [at |-> "miss"]]
    /\ UNCHANGED <<pc, cache, obs, call, ret>>

\* the call after its miss, up to cache.set: what it will store, if anything
RaceOutcome(t, r) ==
    /\ st' = [st EXCEPT !.th[t] =
                 IF call.key \in DOMAIN r.cache
                 THEN [at |-> "store", value |-> r.cache[call.key]]
                 ELSE [at |-> "done", hit |-> FALSE]]
    /\ obs' = [obs EXCEPT !.computed = @ \cup {t}]

\* the provider request, or the generation under the model lock
RaceCompute(t) ==
    /\ st.th[t].at = "miss"
    /\ IF call.fn = "search_news"
       THEN \E resp \in RaceResponses :
               RaceOutcome(t, search_news(call.topic, call.language, call.max_articles,
                                          EmptyCache, resp))
       ELSE \E attempts \in RaceAttempts :
               RaceOutcome(t, summarize_text(call.text, call.max_length, call.min_length,
                                             EmptyCache, attempts))
    /\ UNCHANGED <<pc, cache, call, ret>>

\* self.cache.set(cache_key, result, expire=self.cache_ttl)
RaceStore(t) ==
    /\ st.th[t].at = "store"
    /\ cache' = CacheSet(cache, call.key, st.th[t].value)
    /\ obs' = [obs EXCEPT !.sets = @ + 1]
    /\ st' = [st EXCEPT !.th[t] = [at |-> "done", hit |-> FALSE]]
    /\ UNCHANGED <<pc, call, ret>>

RaceNext ==
    \E t \in 1..MaxRuns : RaceLookup(t) \/ RaceCompute(t) \/ RaceStore(t)

SpecRace ==
    RaceInit /\ [][RaceNext]_vars

----------------------------------------------------------------------------
(* The caches of one agent.  NewsAgent.__init__ hands the same cache_dir   *)
(* to NewsFetcher and to TextSummarizer, and each opens                    *)
(* diskcache.Cache(cache_dir): both objects read and write the one store   *)
(* of that directory, which is the variable cache.                         *)

MaxCacheOps ==
    3

\* "rain", "a_b", " a " and "rain_en"
CacheTopics ==
    {<<"r", "a", "i", "n">>, <<"a", "_", "b">>, <<" ", "a", " ">>,
     <<"r", "a", "i", "n", "_", "e", "n">>}

\* "en" and "en_en"
CacheLanguages ==
    {L_en, <<"e", "n", "_", "e", "n">>}

\* the provider knows "en" only: any other language is answered by an error
CacheResponses(language) ==
    IF language = L_en
    THEN {[kind |-> "transport"], ResponseOk(<<>>), ResponseOk(<<Item("rich")>>)}
    ELSE {[kind |-> "api_error"]}

RECURSIVE SplitMax(_, _, _)
\* s.split(sep, maxsplit) for a one-character sep
SplitMax(s, sep, maxsplit) ==
    IF maxsplit = 0 \/ \A i \in DOMAIN s : s[i] # sep THEN <<s>>
    ELSE LET i == CHOOSE j \in DOMAIN s : s[j] = sep /\ \A k \in 1..(j - 1) : s[k] # sep
         IN  <<SubSeq(s, 1, i - 1)>> \o SplitMax(SubSeq(s, i + 1, Len(s)), sep, maxsplit - 1)

\* parts = key.split('_', 2); topic = parts[1]
KeyTopic(key) ==
    SplitMax(key, "_", 2)[2]

\* get_cached_topics over the keys of news_fetcher.cache: the set of
\* list(set(topics))
get_cached_topics(c) ==
    {KeyTopic(key) : key \in {k \in DOMAIN c :
                                 /\ startswith(k, <<"s", "e", "a", "r", "c", "h", "_">>)
                                 /\ Len(SplitMax(k, "_", 2)) >= 3}}

\* the keys that search_news and get_trending_topics write
IsRetrievalKey(key) ==
    \/ startswith(key, <<"s", "e", "a", "r", "c", "h", "_">>)
    \/ startswith(key, <<"t", "r", "e", "n", "d", "i", "n", "g", "_">>)

\* the entries of the store that a service wrote
Entries(c, retrieval) ==
    [key \in {k \in DOMAIN c : IsRetrievalKey(k) = retrieval} |-> c[key]]

\* obs.holder: for each search key in the store, the triple whose call set it
AgentInit ==
    /\ pc = "agent"
    /\ st = NoState
    /\ cache = EmptyCache
    /\ obs = [ops |-> 0, before |-> EmptyCache, holder |-> <<>>, keys |-> {}]
    /\ call = NoCall
    /\ ret = NoRet

AgentSearchDone(topic, language, max_articles, resp, r) ==
    /\ ret' = [status |-> "returned", ret |-> r.ret, raised |-> r.raised,
               requested |-> r.requested]
    /\ cache' = r.cache
    /\ obs' = [ops |-> obs.ops + 1, before |-> cache, keys |-> {},
               holder |-> IF SearchStored(r, resp)
                          THEN (SearchKey(topic, language, max_articles)
                                    :> <<topic, language, max_articles>>) @@ obs.holder
                          ELSE obs.holder]

\* news_fetcher.search_news(topic, language, max_articles)
AgentSearch ==
    /\ pc = "agent"
    /\ obs.ops < MaxCacheOps
    /\ \E topic \in CacheTopics, language \in CacheLanguages :
          \E resp \in CacheResponses(language) :
             /\ call' = [fn |-> "search_news", topic |-> topic, language |-> language,
                         max_articles |-> 2]
             /\ AgentSearchDone(topic, language, 2, resp,
                                search_news(topic, language, 2, cache, resp))
    /\ UNCHANGED <<pc, st>>

\* summarizer.summarize_text(text) with the model answering
AgentSummarize ==
    /\ pc = "agent"
    /\ obs.ops < MaxCacheOps
    /\ call' = [fn |-> "summarize_text", text |-> <<Text(<<"r", "a", "i", "n">>, 60)>>]
    /\ cache' = summarize_text(call'.text, 150, 50, cache, <<"ok">>).cache
    /\ ret' = [status |-> "returned",
               ret |-> summarize_text(call'.text, 150, 50, cache, <<"ok">>).ret]
    /\ obs' = [obs EXCEPT !.ops = @ + 1, !.before = cache, !.keys = {}]
    /\ UNCHANGED <<pc, st>>

\* news_fetcher.clear_cache(), summarizer.clear_cache() and clear_all_cache(),
\* which calls the two: self.cache.clear() empties the store of cache_dir
AgentClear ==
    /\ pc = "agent"
    /\ obs.ops < MaxCacheOps
    /\ cache # EmptyCache
    /\ \E fn \in {"news_fetcher.clear_cache", "summarizer.clear_cache", "clear_all_cache"} :
          call' = [fn |-> fn]
    /\ cache' = EmptyCache
    /\ ret' = [status |-> "returned"]
    /\ obs' = [ops |-> obs.ops + 1, before |-> cache, holder |-> <<>>, keys |-> {}]
    /\ UNCHANGED <<pc, st>>

\* get_cached_topics(): obs.keys is list(self.news_fetcher.cache.iterkeys())
AgentCachedTopics ==
    /\ pc = "agent"
    /\ obs.ops < MaxCacheOps
    /\ call' = [fn |-> "get_cached_topics"]
    /\ ret' = [status |-> "returned", topics |-> get_cached_topics(cache)]
    /\ obs' = [obs EXCEPT !.ops = @ + 1, !.before = cache, !.keys = DOMAIN cache]
    /\ UNCHANGED <<pc, st, cache>>

AgentNext ==
    \/ AgentSearch
    \/ AgentSummarize
    \/ AgentClear
    \/ AgentCachedTopics

SpecCache ==
    AgentInit /\ [][AgentNext]_vars

----------------------------------------------------------------------------
(* Properties of the workflow (Spec) *)

\* C1: a run whose topic has fewer than 2 characters once trimmed ends with
\* status error, and it calls neither search_news nor the summarizer.
C1_InvalidTopicCallsNothing ==
    (pc = "done" /\ InvalidTopic(call.topic)) =>
        (ret.status = "error" /\ obs.search_calls = 0 /\ obs.sum_calls = 0)

\* C2: enhance_search runs at most twice in a run, and retry_count never
\* exceeds 2.
C2_AtMostTwoEnhancements ==
    /\ st.retry_count <= 2
    /\ Cardinality({i \in DOMAIN obs.path : obs.path[i] = "enhance_search"}) <= 2

\* C2: a run that enhanced its search twice and went on
C2_TwoEnhancementsReached ==
    /\ st.retry_count = 2
    /\ Cardinality({i \in DOMAIN obs.path : obs.path[i] = "enhance_search"}) = 2
    /\ pc = "done"

\* C3: the quality_score that quality_check leaves is between 0 and 1, for
\* any articles and any max_articles, and it is 0 for no articles.
C3_QualityScoreInUnitInterval ==
    (obs.path # <<>> /\ obs.path[Len(obs.path)] = "quality_check") =>
        /\ FLe(Zero, st.quality_score)
        /\ FLe(st.quality_score, One)
        /\ (st.articles = <<>> => st.quality_score = Zero)

\* C4: once error is set, no node changes articles, summarized_articles or
\* digest, and the only node that runs with error set is handle_error.
C4_ErrorIsAbsorbing ==
    ~obs.changed_after_error /\ obs.err_entry \subseteq {"handle_error"}

\* C5: process_topic always returns a result whose status is success or
\* error, whatever max_articles is.
C5_StatusIsSuccessOrError ==
    pc = "done" => ret.status \in {"success", "error"}

\* C5: a run with max_articles = 0 whose fetch raised has returned
C5_ZeroMaxArticlesReturned ==
    pc = "done" /\ call.max_articles = 0 /\ obs.fetch_raised > 0
    /\ ret.status = "error"

\* C6: a run with a valid topic whose every fetch returned no articles ends
\* with status error and the no-articles message, and never calls the
\* summarizer.
C6_NoArticlesIsAnError ==
    (pc = "done" /\ ~InvalidTopic(call.topic) /\ obs.fetches >= 1
     /\ obs.zero_fetches = obs.fetches) =>
        (ret.status = "error" /\ ret.message = NoArticlesError /\ obs.sum_calls = 0)

\* C6: a run with a valid topic, all of whose fetches returned nothing, ended
C6_AllFetchesEmptyReached ==
    pc = "done" /\ ~InvalidTopic(call.topic) /\ obs.fetches >= 1
    /\ obs.zero_fetches = obs.fetches /\ obs.requests >= 1

\* C7: a run whose fetch returned no articles reaches the terminal error
\* only after the enhancement loop has used its two retries.
C7_ZeroResultsAreRetried ==
    (pc = "handle_error" /\ ~InvalidTopic(call.topic) /\ obs.fetch_raised = 0
     /\ st.articles = <<>>) =>
        st.retry_count >= 2

\* C9: a provider failure never makes search_news raise into fetch_news.
C9_ProviderFailureNeverRaises ==
    ~obs.failure_raised

----------------------------------------------------------------------------
(* Properties of the retrieval cache (SpecSearch) *)

\* C8: a call that repeats an earlier call before the entries expire returns
\* the list that call returned and asks the provider nothing.
C8_SecondCallIsServedFromCache ==
    (ret.status = "returned" /\ call.fn = "search_news" /\ ret.repeated) =>
        (ret.same /\ ~ret.requested)

----------------------------------------------------------------------------
(* Properties of the relevance score (SpecRelevance) *)

\* C10: calculate_relevance_score raises for no article and no topic, its
\* value is between 0 and 1, and it is 0.5 when the topic has no keywords.
C10_ScoreIsTotalAndBounded ==
    pc = "returned" =>
        /\ ~ret.raised
        /\ FLe(Zero, ret.score) /\ FLe(ret.score, One)
        /\ (extract_keywords(call.topic) = {} => ret.score = Float(1, 2))

----------------------------------------------------------------------------
(* Properties of the extraction chain (SpecExtract) *)

\* C11: the strategies are submitted in the order trafilatura, newspaper,
\* beautifulsoup; when the future hands over a success with more than 100
\* characters the chain returns it at once, and a successful result names the
\* last strategy submitted, every earlier one having been submitted before it.
C11_FirstSuccessInFixedOrder ==
    /\ [](/\ obs.attempted = SubSeq(<<"trafilatura", "newspaper", "beautifulsoup">>,
                                    1, Len(obs.attempted))
          /\ (pc = "done" /\ ret.success) =>
                 /\ obs.attempted # <<>>
                 /\ ret.method = obs.attempted[Len(obs.attempted)]
                 /\ ret.method = methods[st.k]
                 /\ TStripLen(ret.text) > 100)
    /\ [][(pc = "result" /\ st.worker = "finished" /\ ~st.out.raised
           /\ st.out.success /\ TStripLen(st.out.text) > 100) =>
              (pc' = "done" /\ ret' = st.out /\ obs' = obs)]_vars

\* the third strategy is the first to succeed, after the other two
C11_ThirdStrategySucceeds ==
    /\ pc = "done"
    /\ ret.success
    /\ ret.method = "beautifulsoup"
    /\ obs.attempted = <<"trafilatura", "newspaper", "beautifulsoup">>

\* C12: once the timeout of a strategy has expired, the chain does not wait
\* for that strategy to complete.
C12_TimedOutStrategyIsNotAwaited ==
    ~(pc = "exit" /\ st.worker = "running")

\* C13: for a URL that is empty, is not an http:// or https:// URL, or matches
\* the blacklist, no strategy is attempted and the result is a failure.
C13_BadUrlIsRejectedAtOnce ==
    (\/ call.url = <<>>
     \/ ~(\/ startswith(call.url, <<"h", "t", "t", "p", ":", "/", "/">>)
          \/ startswith(call.url, <<"h", "t", "t", "p", "s", ":", "/", "/">>))
     \/ \E pattern \in blacklisted_patterns : IsSubstr(pattern, lower(call.url))) =>
        (obs.attempted = <<>> /\ (pc = "done" => ~ret.success))

----------------------------------------------------------------------------
(* Properties of the summarizer (SpecSummarize) *)

\* C14: for a non-empty list of articles whose text_content each has at most
\* 100 characters or carries the paywall message, create_digest_summary
\* returns the paid-plan placeholder with article_count the length of the list
\* and cached false, invokes the model never and writes nothing to the cache.
C14_PlaceholderDigestForThinArticles ==
    (/\ call.fn = "create_digest_summary"
     /\ call.articles # <<>>
     /\ \A i \in DOMAIN call.articles :
           \/ TLen(Get(call.articles[i], "text_content", EmptyText)) <= 100
           \/ HasPaywall(Get(call.articles[i], "text_content", EmptyText))) =>
        /\ ret = DigestResult(PaidPlanDigest(Len(call.articles)), Len(call.articles), FALSE)
        /\ obs.model_calls = 0
        /\ ~obs.wrote

\* a digest asked for an article of exactly 100 characters and a paywalled one
C14_ThinArticlesDigested ==
    /\ call.fn = "create_digest_summary"
    /\ Len(call.articles) = 2
    /\ TLen(call.articles[1].text_content) = 100
    /\ HasPaywall(call.articles[2].text_content)
    /\ ret.article_count = 2

\* C15: for a text with fewer than 50 characters once stripped, summarize_text
\* returns the not-available placeholder with summary_length 0 and cached
\* false, invokes the model never and writes nothing to the cache.
C15_ShortTextGetsPlaceholder ==
    (call.fn = "summarize_text" /\ Len(strip(Flatten(call.text))) < 50) =>
        /\ ret = SummaryResult(NotAvailable, call.text, 0, FALSE)
        /\ obs.model_calls = 0
        /\ ~obs.wrote

\* a text of 64 characters, 44 once stripped, is refused while the cache
\* holds an entry
C15_PaddedShortTextRefused ==
    /\ call.fn = "summarize_text"
    /\ DocLen(call.text) = 64
    /\ Len(strip(Flatten(call.text))) = 44
    /\ ret.summary = NotAvailable
    /\ cache # EmptyCache

\* C17: one call invokes the model at most 3 times; when every invocation it
\* made failed it returns the unable-to-generate placeholder with
\* summary_length 0 and cached false, and writes nothing to the cache.
C17_AtMostThreeAttempts ==
    /\ obs.model_calls <= 3
    /\ (/\ call.fn = "summarize_text"
        /\ obs.model_calls >= 1
        /\ \A i \in 1..obs.model_calls : ~call.answers[i].ok) =>
           /\ ret = SummaryResult(UnableToGenerate, call.text, 0, FALSE)
           /\ ~obs.wrote

\* three invocations fail, the fourth answer of the model is never asked for
C17_ThreeFailuresExhaustTheCall ==
    /\ call.fn = "summarize_text"
    /\ Len(call.answers) = 4
    /\ obs.model_calls = 3
    /\ ret.summary = UnableToGenerate

\* C18: when an invocation of the model raises an out-of-memory or accelerator
\* error, the call invokes the model no more and returns the failure
\* placeholder.
C18_OutOfMemoryIsNotRetried ==
    (/\ call.fn = "summarize_text"
     /\ \E j \in 1..obs.model_calls : ~call.answers[j].ok /\ call.answers[j].oom) =>
        /\ \A j \in 1..obs.model_calls :
              (~call.answers[j].ok /\ call.answers[j].oom) => j = obs.model_calls
        /\ ret.summary = UnableToGenerate

\* C19: a call whose arguments are those of an earlier call that generated a
\* summary, the entries not having expired since, returns that call's result
\* with cached true and invokes the model never; a call whose text,
\* max_length or min_length differs from every such call is not served from
\* the cache.
C19_SameArgumentsHitTheCache ==
    call.fn = "summarize_text" =>
        /\ obs.repeated =>
              /\ ret = [obs.earlier[1] EXCEPT !.cached = TRUE]
              /\ obs.model_calls = 0
        /\ ~obs.repeated => ~ret.cached
        /\ \A t \in DOMAIN obs.produced :
              t # <<call.text, call.max_length, call.min_length>> =>
                  _generate_cache_key(t[1], t[2], t[3])
                      # _generate_cache_key(call.text, call.max_length, call.min_length)

\* a generated summary is served again
C19_RepeatedCallServed ==
    /\ call.fn = "summarize_text"
    /\ obs.repeated
    /\ ret.cached
    /\ ret.summary_length > 0

----------------------------------------------------------------------------
(* Properties of the model lock (SpecLock) *)

\* C16: at any time at most one thread is inside an invocation of the model.
C16_OneGenerationAtATime ==
    Cardinality(obs.in_model) <= 1

\* one thread is inside the model in its third attempt while the two others
\* wait for the lock
C16_TwoThreadsWaitForTheModel ==
    \E t \in 1..MaxThreads :
        /\ obs.in_model = {t}
        /\ st.th[t].attempt = 3
        /\ Cardinality({u \in 1..MaxThreads : st.th[u].at = "lock"}) >= 2

\* C20: for an invalid topic the message of the result is the error text
\* that validate_input set.
C20_InputErrorIsSurfacedVerbatim ==
    (pc = "done" /\ InvalidTopic(call.topic)) =>
        (ret.status = "error"
         /\ ret.message = "Topic must be at least 2 characters long")

----------------------------------------------------------------------------
(* Properties of the extraction stages (SpecStage) *)

\* C21: a stage that changes a non-empty text_content puts in its place a
\* longer text that carries no paywall message.
C21_TextIsNeverReplacedByAWorseOne ==
    (/\ pc = "returned"
     /\ Truthy(call.article.text_content)
     /\ ret.article.text_content # call.article.text_content) =>
        /\ TLen(ret.article.text_content) > TLen(call.article.text_content)
        /\ ~HasPaywall(ret.article.text_content)

----------------------------------------------------------------------------
(* Properties of the quality score and the routing (SpecQuality) *)

\* C22: for a state with articles, quality_check sets quality_score to the
\* mean of min(count / max_articles, 1), the mean step score of the bodies
\* (over 200 characters 1.0, over 100 0.7, over 50 0.4, else 0.1) and
\* min(distinct sources / max(0.7 * count, 1), 1); three articles of more than
\* 200 characters from three sources with max_articles = 5 score the float
\* 13 / 15 (0.8666666666666667) and,
\* without an error and with retry_count 0, the route is proceed.
C22_QualityIsMeanOfThreeFactors ==
    (pc = "checked" /\ st.articles # <<>>) =>
        LET n == Len(st.articles)
            body(i) == TLen(Get(st.articles[i], "text_content", EmptyText))
            step(i) == IF body(i) > 200 THEN Float(10, 10)
                       ELSE IF body(i) > 100 THEN Float(7, 10)
                       ELSE IF body(i) > 50 THEN Float(4, 10)
                       ELSE Float(1, 10)
            count == FMin(Float(n, st.max_articles), One)
            richness == FDiv(FSum([i \in 1..n |-> step(i)]), Float(n, 1))
            distinct == Cardinality({Get(st.articles[i], "source", "unknown") : i \in 1..n})
            diversity == FMin(FDiv(FromInt(distinct),
                                   FMax(FMul(FromInt(n), Float(7, 10)), One)), One)
        IN  /\ ret.state.quality_score
                 = FDiv(FAdd(FAdd(count, richness), diversity), Float(3, 1))
            /\ (/\ n = 3 /\ distinct = 3 /\ st.max_articles = 5
                /\ \A i \in 1..n : body(i) > 200) =>
                   /\ ret.state.quality_score = Float(13, 15)
                   /\ (st.error = NoError /\ st.retry_count = 0) =>
                         (ret.route = "proceed" /\ ret.state.retry_count = 0)

\* three articles of 254 characters from three sources, max_articles = 5, were
\* checked in a run that had not retried
C22_ThreeRichArticlesChecked ==
    /\ pc = "checked"
    /\ st.articles = <<Scored(250, "BBC"), Scored(250, "CNN"), Scored(250, "AP")>>
    /\ st.max_articles = 5 /\ st.error = NoError /\ st.retry_count = 0
    /\ ret.route = "proceed"

\* C23 as stated: for every state the route is error when an error is set or
\* there are no articles, else enhance when quality_score < 0.5 and
\* retry_count < 2, else proceed.
C23_EmptyArticlesAlwaysRouteToError ==
    pc = "routed" =>
        ret.route = (IF st.error # NoError \/ st.articles = <<>> THEN "error"
                     ELSE IF FLt(st.quality_score, Float(1, 2)) /\ st.retry_count < 2
                     THEN "enhance"
                     ELSE "proceed")

\* C23 amended: for every state the route is error when an error is set, else
\* enhance when quality_score < 0.5 and retry_count < 2, else error when there
\* are no articles, else proceed.
C23_RouteOfEveryState ==
    pc = "routed" =>
        ret.route = (IF st.error # NoError THEN "error"
                     ELSE IF FLt(st.quality_score, Float(1, 2)) /\ st.retry_count < 2
                     THEN "enhance"
                     ELSE IF st.articles = <<>> THEN "error"
                     ELSE "proceed")

\* a state without error and without articles, of low quality and not yet
\* retried twice, was routed to enhance
C23_EmptyStateEnhanced ==
    /\ pc = "routed"
    /\ st.error = NoError /\ st.articles = <<>>
    /\ st.quality_score = Zero /\ st.retry_count = 1
    /\ ret.route = "enhance"

----------------------------------------------------------------------------
(* Properties of the workflow (Spec), continued *)

\* C24: after the k-th execution of enhance_search in a run (k = 1, 2),
\* retry_count is k and the topic is entry k of the list made from the topic
\* the caller submitted: T news, T latest, T updates.
C24_EnhancedTopicIsBuiltFromSubmittedTopic ==
    (Len(obs.path) > 0 /\ obs.path[Len(obs.path)] = "enhance_search") =>
        LET k == Cardinality({i \in DOMAIN obs.path : obs.path[i] = "enhance_search"})
        IN  /\ st.retry_count = k
            /\ st.topic = enhancement_strategies(call.topic)[k]

\* C26: when the last quality_check of a run is entered without an error,
\* after two enhancements, and finds articles of quality below 0.5, the run
\* goes on through summarize_articles, create_digest and format_response and
\* process_topic returns status success with retry_count 2 and that quality
\* score in its metadata.
C26_LowQualityAfterTwoRetriesSucceeds ==
    (/\ pc = "done"
     /\ st.retry_count = 2
     /\ st.articles # <<>>
     /\ FLt(st.quality_score, Float(1, 2))
     /\ "quality_check" \notin obs.err_entry) =>
        /\ SubSeq(obs.path, Len(obs.path) - 3, Len(obs.path))
             = <<"quality_check", "summarize_articles", "create_digest",
                 "format_response">>
        /\ ret.status = "success"
        /\ ret.metadata.retry_count = 2
        /\ ret.metadata.quality_score = st.quality_score

\* a run that retried twice and still had a short article only has returned
C26_LowQualityRunReturned ==
    /\ pc = "done"
    /\ st.retry_count = 2
    /\ st.articles # <<>>
    /\ FLt(st.quality_score, Float(1, 2))
    /\ ret.status = "success"

\* C25: every run that starts comes to the end of the graph through
\* format_response or handle_error and returns; fetch_news runs at most three
\* times in it, and a terminal node is the last node that runs.
C25_EveryRunTerminates ==
    /\ [](pc = "validate_input" =>
            <>(/\ pc = "done"
               /\ obs.path[Len(obs.path)] \in {"format_response", "handle_error"}))
    /\ [](/\ obs.fetches <= 3
          /\ \A i \in DOMAIN obs.path :
                obs.path[i] \in {"format_response", "handle_error"} =>
                    i = Len(obs.path))

\* a run has fetched three times and returned
C25_ThreeFetchesThenReturned ==
    /\ pc = "done"
    /\ obs.fetches = 3
    /\ obs.path[Len(obs.path)] = "format_response"

\* C27 as stated: after fetch_news every article of the state has a
\* successful extraction.
C27_EveryKeptArticleWasExtracted ==
    pc = "quality_check" =>
        \A i \in DOMAIN st.articles :
            /\ "extraction_success" \in DOMAIN st.articles[i]
            /\ st.articles[i].extraction_success

\* C27 amended: no article of the state, of the summarized articles or of the
\* result has a failed extraction; an article whose extraction was not
\* attempted is kept.
C27_NoKeptArticleFailedExtraction ==
    /\ \A i \in DOMAIN st.articles : Get(st.articles[i], "extraction_success", TRUE)
    /\ \A i \in DOMAIN st.summarized_articles :
          Get(st.summarized_articles[i], "extraction_success", TRUE)
    /\ (pc = "quality_check" /\ "fetch_news" \notin obs.err_entry
        /\ obs.fetch_raised = 0
        /\ SearchKey(st.topic, st.language, st.max_articles) \in DOMAIN cache) =>
          st.articles
            = SelectSeq(cache[SearchKey(st.topic, st.language, st.max_articles)],
                        LAMBDA a : ~("extraction_success" \in DOMAIN a
                                     /\ ~a.extraction_success))

\* search_news returned an article whose extraction failed, and fetch_news
\* left it out of the state
C27_FailedArticleDropped ==
    /\ pc = "quality_check"
    /\ SearchKey(st.topic, st.language, st.max_articles) \in DOMAIN cache
    /\ \E i \in DOMAIN cache[SearchKey(st.topic, st.language, st.max_articles)] :
          /\ "extraction_success"
                \in DOMAIN cache[SearchKey(st.topic, st.language, st.max_articles)][i]
          /\ ~cache[SearchKey(st.topic, st.language, st.max_articles)][i].extraction_success
    /\ st.articles = <<>>

----------------------------------------------------------------------------
(* Properties of the relevance filter (SpecFilter) *)

\* C28: filter_relevant_articles returns the input articles whose score is at
\* least min_relevance, each with its relevance_score, in descending order of
\* score, articles of equal score in input order.
C28_FilterKeepsPassingArticlesInOrder ==
    pc = "returned" =>
        LET score(i) == calculate_relevance_score(call.articles[i], call.topic).score
            K == {i \in DOMAIN call.articles : FLe(call.min_relevance, score(i))}
        IN  /\ ~ret.raised
            /\ Len(ret.ret) = Cardinality(K)
            /\ \E f \in [DOMAIN ret.ret -> K] :
                  /\ \A j \in DOMAIN ret.ret :
                        ret.ret[j] = [relevance_score |-> score(f[j])]
                                     @@ call.articles[f[j]]
                  /\ \A j, k \in DOMAIN ret.ret :
                        j < k => \/ FLt(score(f[k]), score(f[j]))
                                 \/ (score(f[k]) = score(f[j]) /\ f[j] < f[k])

----------------------------------------------------------------------------
(* Properties of the retrieval service (SpecSearch), continued *)

\* C29: a call of search_news that returns does not return more than
\* max_articles articles (none, when max_articles is negative), and the list a
\* call has stored in the cache, the entries not having expired since, is the
\* list it returned.
C29_AtMostMaxArticlesReturned ==
    (call.fn = "search_news" /\ ~ret.raised) =>
        /\ Len(ret.ret) <= (IF call.max_articles > 0 THEN call.max_articles ELSE 0)
        /\ (/\ ret.requested /\ ret.ret # <<>>
            /\ SearchKey(call.topic, call.language, call.max_articles)
                  \in DOMAIN obs.prev) =>
              cache[SearchKey(call.topic, call.language, call.max_articles)] = ret.ret

\* C30: a call of search_news that asks the provider and gets n articles with
\* a description or a content returns min(n, max_articles) of them (none, when
\* max_articles is negative), each with a score of at least 0.2, in descending
\* order of score, and no candidate left out scores more than one returned.
C30_ThresholdExcludesNoArticle ==
    (call.fn = "search_news" /\ ret.requested /\ call.resp.kind = "ok") =>
        LET cands == _enhance_articles_with_extraction(
                         _process_articles(call.resp.articles))
            n == Len(cands)
            score(i) == calculate_relevance_score(cands[i], call.topic).score
        IN  /\ ~ret.raised
            /\ Len(ret.ret) = (IF n < call.max_articles THEN n
                               ELSE IF call.max_articles > 0 THEN call.max_articles
                               ELSE 0)
            /\ \A j \in DOMAIN ret.ret :
                  /\ FLe(Float(2, 10), ret.ret[j].relevance_score)
                  /\ \E i \in 1..n :
                        ret.ret[j] = [relevance_score |-> score(i)] @@ cands[i]
                  /\ j > 1 => FLe(ret.ret[j].relevance_score,
                                  ret.ret[j - 1].relevance_score)
            /\ \A i \in 1..n :
                  ([relevance_score |-> score(i)] @@ cands[i]) \in Range(ret.ret)
                  \/ \A j \in DOMAIN ret.ret :
                        FLe(score(i), ret.ret[j].relevance_score)

----------------------------------------------------------------------------
(* Properties of extract_multiple_articles (SpecBatch) *)

\* C31 (as stated): no article that extract_multiple_articles returns has
\* extraction_success = false.
C31_NoFailedArticleInOutput ==
    pc = "returned" =>
        \A k \in DOMAIN ret.articles : Get(ret.articles[k], "extraction_success", TRUE)

\* C31 (amended): every article that extract_multiple_articles returns is the
\* result of one input article, no input article is returned twice, and a
\* returned article has extraction_success = false only if it carries
\* extracted content.
C31_OutputIsInputsExtractedOrWithContent ==
    pc = "returned" =>
        /\ Len(ret.articles) = Len(obs.kept)
        /\ \A k \in DOMAIN ret.articles :
              /\ obs.kept[k] \in DOMAIN call.articles
              /\ ret.articles[k] = extract_one(call.articles[obs.kept[k]])
              /\ Get(call.articles[obs.kept[k]], "url", "") # ""
                    => "extraction_success" \in DOMAIN ret.articles[k]
              /\ ~Get(ret.articles[k], "extraction_success", TRUE)
                    => Truthy(Get(ret.articles[k], "extracted_content", None))
        /\ \A k, l \in DOMAIN ret.articles : obs.kept[k] = obs.kept[l] => k = l

\* a batch of three returned two articles: the one whose page failed was dropped
C31_FailedArticleLeftOut ==
    /\ pc = "returned"
    /\ Len(call.articles) = 3
    /\ Len(ret.articles) = 2
    /\ \E i \in DOMAIN call.articles :
          /\ call.articles[i].url = "http://news.site/fail"
          /\ "extracted_content" \notin DOMAIN call.articles[i]

\* C32: when the aggregate timeout elapses with extractions pending, the
\* call returns the articles completed so far and raises nothing.
C32_TimeoutReturnsCompletedArticles ==
    (obs.timed_out /\ pc \in {"returned", "raised"}) =>
        /\ ret.status = "returned"
        /\ ret.articles = obs.enhanced_articles

----------------------------------------------------------------------------
(* Properties of concurrent runs (SpecRace) *)

\* C33: of two runs that call with the same arguments within one TTL window,
\* at most one asks the provider or the model, and the key is set at most
\* once.
C33_OneRunComputesAndSetsTheKey ==
    /\ Cardinality(obs.computed) <= 1
    /\ obs.sets <= 1

----------------------------------------------------------------------------
(* Properties of the digest cache (SpecSummarize) *)

\* C34: a digest served from the cache has the digest text of a fresh
\* computation on the list of this call and an article_count equal to the
\* length of that list.
C34_CachedDigestEqualsFreshDigest ==
    (call.fn = "create_digest_summary" /\ ret.cached) =>
        /\ ret.article_count = Len(call.articles)
        /\ ret.digest =
              create_digest_summary(call.articles, call.max_length, EmptyCache,
                                    [i \in DOMAIN call.answers |->
                                        Classify(call.answers[i])]).ret.digest

----------------------------------------------------------------------------
(* Properties of the caches of one agent (SpecCache) *)

\* C35: a write or a clear on one of the two caches leaves every entry of
\* the other unchanged, and the keys enumerated from the retrieval cache are
\* keys of retrieval entries only.
C35_CachesAreIndependentStores ==
    /\ call.fn \in {"summarize_text", "summarizer.clear_cache"} =>
          Entries(cache, TRUE) = Entries(obs.before, TRUE)
    /\ call.fn \in {"search_news", "news_fetcher.clear_cache"} =>
          Entries(cache, FALSE) = Entries(obs.before, FALSE)
    /\ call.fn = "get_cached_topics" => \A key \in obs.keys : IsRetrievalKey(key)

\* C36: a search_news call served from the cache returns the entry that a
\* call with exactly the same topic, language and max_articles stored, and
\* no other triple has the key of this call.
C36_EntryServedOnlyToItsTriple ==
    (call.fn = "search_news"
     /\ SearchKey(call.topic, call.language, call.max_articles) \in DOMAIN obs.holder) =>
        /\ obs.holder[SearchKey(call.topic, call.language, call.max_articles)]
              = <<call.topic, call.language, call.max_articles>>
        /\ \A topic \in CacheTopics, language \in CacheLanguages :
              <<topic, language>> # <<call.topic, call.language>> =>
                  SearchKey(topic, language, call.max_articles)
                      # SearchKey(call.topic, call.language, call.max_articles)

\* C37: get_cached_topics returns exactly the topics of the triples whose
\* search entry the retrieval cache holds.
C37_CachedTopicsAreTheStoredTopics ==
    call.fn = "get_cached_topics" =>
        ret.topics = {obs.holder[key][1] : key \in DOMAIN obs.holder}

----------------------------------------------------------------------------
(* Properties of the message log (Spec) *)

\* C38: every execution of a stage keeps the messages logged so far as they
\* are and appends at least one message to them.
C38_EveryStageAppendsAMessage ==
    [][(pc \in {"validate_input", "fetch_news", "quality_check", "enhance_search",
                "summarize_articles", "create_digest", "format_response",
                "handle_error"}) =>
          (Len(st'.messages) > Len(st.messages)
           /\ SubSeq(st'.messages, 1, Len(st.messages)) = st.messages)]_vars

----------------------------------------------------------------------------
(* Properties of the trending derivation (SpecTrending) *)

\* C39: at most 10 topics are returned, in descending order of count, and
\* each carries the headline seen last among the headlines that counted for
\* it.
C39_TopTenWithMostRecentHeadline ==
    pc = "returned" =>
        /\ Len(ret.topics) <= 10
        /\ \A k \in 1..(Len(ret.topics) - 1) : ret.topics[k].count >= ret.topics[k + 1].count
        /\ \A k \in DOMAIN ret.topics :
              LET seen == {i \in DOMAIN call.articles :
                              \E j \in DOMAIN all_topics(call.articles[i]) :
                                 /\ Len(all_topics(call.articles[i])[j]) > 3
                                 /\ title(all_topics(call.articles[i])[j])
                                       = ret.topics[k].topic}
              IN  ret.topics[k].latest_article
                     = latest_article(call.articles[CHOOSE i \in seen :
                                                       \A j \in seen : j <= i])

----------------------------------------------------------------------------
(* Properties of what the summarizer stores (SpecSummarize) *)

\* C40: no cache entry holds the unable-to-generate or the not-available
\* placeholder, and no call returns one of them with cached = true.
C40_NoPlaceholderIsCached ==
    /\ \A key \in DOMAIN cache :
          /\ "summary" \in DOMAIN cache[key] =>
                cache[key].summary \notin {UnableToGenerate, NotAvailable}
          /\ "digest" \in DOMAIN cache[key] =>
                cache[key].digest \notin {UnableToGenerate, NotAvailable}
    /\ (call.fn = "create_digest_summary" /\ ret.cached) =>
          ret.digest \notin {UnableToGenerate, NotAvailable}
    /\ (call.fn = "summarize_text" /\ ret.cached) =>
          ret.summary \notin {UnableToGenerate, NotAvailable}

====
